---- MODULE Spec2Model ----
(***************************************************************************)
(* Model of the basket-assembly engine of basket-debate:                   *)
(*   - BudgetAgent.optimize            (src/src/agent/budget/agent.py)     *)
(*   - ScenarioMatcher.match           (src/src/agents/compatibility/      *)
(*                                      scenario_matcher.py)               *)
(*   - CompatibilityAgent.generate_basket (both implementations)           *)
(* Money is counted in whole roubles, min_discount in percent, scores in   *)
(* tenths; text is a tuple of one-character strings.                       *)
(***************************************************************************)
EXTENDS Integers, Sequences, FiniteSets, TLC

VARIABLES
    b_pool,      \* rows of table products seen by BudgetAgent
    b_pc,        \* position in BudgetAgent.optimize: "idle" | "loop" | "done"
    b_in,        \* argument basket
    b_budget,    \* argument budget_rub (NoBudget for None)
    b_disc,      \* argument min_discount, in percent
    b_basket,    \* optimized_basket
    b_order,     \* sorted_indices
    b_k,         \* position of the for loop in sorted_indices
    b_repl,      \* replacements
    b_saved,     \* total_saved
    b_found,     \* per visited index: what _find_cheaper_alternative returned
    b_result,    \* the returned dict
    b_again,     \* TRUE when the running call was given the previous call's basket
    b_prev,      \* the previous call's returned dict
    m_lib,       \* ScenarioMatcher.scenarios
    m_pc,        \* position of ScenarioMatcher.match: "idle" | "returned" | "raised"
    m_args,      \* the arguments of the call of match
    m_draw,      \* what the random source gave the call
    m_result,    \* what match returned (None: found = FALSE)
    g_impl,      \* which CompatibilityAgent runs: "agent" (src/agent) | "agents" (src/agents)
    g_pc,        \* position in generate_basket: "idle" | "slots" | "done" | "escaped"
    g_query,     \* parsed_query
    g_scenario,  \* the scenario match returned
    g_i,         \* index of the component the for loop takes next
    g_basket,    \* basket
    g_total,     \* total_price (src/agents keeps it while filling)
    g_errors,    \* errors
    g_slots,     \* per component taken by the loop: what the search gave
    g_result,    \* the returned dict
    k_pc,        \* _scale_scenario harness: the implementations that have run
    k_in,        \* its inputs: quantity_per_person, people, serves_base
    k_out,       \* quantity_scaled of each implementation
    p_pc,        \* package arithmetic harness: the implementations that have run
    p_in,        \* its inputs: slot quantity and unit, product unit, package size, price
    p_out,       \* the package count and prices computed
    s_pc,        \* compute_score harness: "in" | "out"
    s_in,        \* the basket scored and the weights
    s_out,       \* the dict compute_score returned
    e_products,  \* CompatibilityEnv.products
    e_budget,    \* CompatibilityEnv._budget
    e_meal,      \* constraints['meal_type']
    e_cart,      \* CompatibilityEnv.cart_indices
    e_sum,       \* CompatibilityEnv.current_sum
    e_steps,     \* CompatibilityEnv.steps
    e_masked,    \* every action taken since reset was legal under action_masks
    e_last,      \* the last step: its action, whether it appended or raised, what it returned
    t_pc,        \* basket total harness: "in" | "out"
    t_in,        \* its inputs: the basket and budget_rub
    t_out,       \* the total optimize compares with the budget, and whether it returns early
    q_pc,        \* candidate query harness: the queries that have run
    q_in,        \* its inputs: exclude_tags and include_tags
    q_out,       \* the ids of the rows each query returned
    w_products,  \* MultiActionMaskedBasketEnv.products
    w_exclude,   \* MultiActionMaskedBasketEnv.exclude_tags
    w_include,   \* MultiActionMaskedBasketEnv.include_tags
    w_budget,    \* MultiActionMaskedBasketEnv._budget
    w_budget_indices,   \* MultiActionMaskedBasketEnv.budget_indices
    w_profile_indices,  \* MultiActionMaskedBasketEnv.profile_indices
    w_cart,      \* MultiActionMaskedBasketEnv.cart
    w_sum,       \* MultiActionMaskedBasketEnv.current_sum
    w_steps      \* MultiActionMaskedBasketEnv.steps

bvars == <<b_pool, b_pc, b_in, b_budget, b_disc, b_basket, b_order, b_k,
           b_repl, b_saved, b_found, b_result, b_again, b_prev>>

mvars == <<m_lib, m_pc, m_args, m_draw, m_result>>

gvars == <<g_impl, g_pc, g_query, g_scenario, g_i, g_basket, g_total, g_errors,
           g_slots, g_result>>

kvars == <<k_pc, k_in, k_out>>

pvars == <<p_pc, p_in, p_out>>

svars == <<s_pc, s_in, s_out>>

evars == <<e_products, e_budget, e_meal, e_cart, e_sum, e_steps, e_masked, e_last>>

\* the harnesses and the environment, for the actions of the agents
xvars == <<kvars, pvars, svars, evars>>

tvars == <<t_pc, t_in, t_out>>

qvars == <<q_pc, q_in, q_out>>

wvars == <<w_products, w_exclude, w_include, w_budget, w_budget_indices,
           w_profile_indices, w_cart, w_sum, w_steps>>

\* the basket total harness, the candidate query harness and the multi-action
\* environment, for the actions of every other component
nvars == <<tvars, qvars, wvars>>

vars == <<bvars, mvars, gvars, xvars, nvars>>

----------------------------------------------------------------------------
(* Text *)

\* x in y of Python on str: y has x as a contiguous run
Contains(text, pat) ==
    \E i \in 0..(Len(text) - Len(pat)) :
        \A j \in 1..Len(pat) : text[i + j] = pat[j]

\* text LIKE '%pat%' of SQLite: '_' in pat stands for any one character
LikeContains(text, pat) ==
    \E i \in 0..(Len(text) - Len(pat)) :
        \A j \in 1..Len(pat) : pat[j] = "_" \/ text[i + j] = pat[j]

RECURSIVE SplitAt(_, _)
\* text.split(sep) of Python, sep one character
SplitAt(text, sep) ==
    IF \A i \in 1..Len(text) : text[i] # sep
    THEN <<text>>
    ELSE LET p == CHOOSE i \in 1..Len(text) :
                     text[i] = sep /\ \A j \in 1..(i - 1) : text[j] # sep
         IN  <<SubSeq(text, 1, p - 1)>> \o SplitAt(SubSeq(text, p + 1, Len(text)), sep)

Range(s) == {s[i] : i \in DOMAIN s}

\* a maximum that ignores its second argument
MaxTakesFirst(a, b) == a

Max(a, b) == IF a >= b THEN a ELSE b
Min(a, b) == IF a <= b THEN a ELSE b

----------------------------------------------------------------------------
(* BudgetAgent *)

MaxBasket == 2

NoBudget == -1
NoAlt == [id |-> -1]
NoId == 0

RoleM  == <<"m">>
RoleS  == <<"s">>
RoleMC == <<"m", "_", "c">>
RoleB  == <<"b">>

\* rows of products: id, price_per_unit, meal_components (text, roles joined by '|'),
\* embedding ("null" NULL, "empty" zero-length blob, "nan" non-finite, else a vector)
PoolRows == {
    [id |-> 1, price |-> 60, mc |-> <<"m">>,                emb |-> "a"],
    [id |-> 2, price |-> 70, mc |-> <<"s", "|", "m">>,      emb |-> "b"],
    [id |-> 3, price |-> 30, mc |-> <<"s">>,                emb |-> "b"],
    [id |-> 4, price |-> 10, mc |-> <<"m", "s">>,           emb |-> "a"],
    [id |-> 5, price |-> -5, mc |-> <<>>,                   emb |-> "a"],
    [id |-> 6, price |-> 20, mc |-> <<"m">>,                emb |-> "nan"],
    [id |-> 7, price |-> 5,  mc |-> <<"m">>,                emb |-> "null"],
    [id |-> 8, price |-> 40, mc |-> <<"m", "x", "c">>,      emb |-> "empty"] }

Pools == {PoolRows \ S : S \in {T \in SUBSET PoolRows : Cardinality(T) <= 1}}

\* basket items: id (NoId: no 'id' key), price, meal_components (a list of roles,
\* or the text of a products row), embedding ("none": no 'embedding' key)
InputItems == {
    [id |-> 1,    price |-> 100, mc |-> [t |-> "list", v |-> <<RoleM>>],         emb |-> "a"],
    [id |-> NoId, price |-> 100, mc |-> [t |-> "list", v |-> <<>>],              emb |-> "a"],
    [id |-> 3,    price |-> 90,  mc |-> [t |-> "list", v |-> <<RoleS, RoleM>>],  emb |-> "b"],
    [id |-> 9,    price |-> 80,  mc |-> [t |-> "list", v |-> <<RoleMC>>],        emb |-> "none"],
    [id |-> 9,    price |-> 0,   mc |-> [t |-> "list", v |-> <<RoleS>>],         emb |-> "a"],
    [id |-> 2,    price |-> 80,  mc |-> [t |-> "list", v |-> <<RoleM>>],         emb |-> "nan"] }

RECURSIVE SeqsUpTo(_, _)
SeqsUpTo(S, n) ==
    IF n = 0 THEN {<<>>}
    ELSE LET shorter == SeqsUpTo(S, n - 1)
         IN  shorter \cup {Append(s, x) : s \in {t \in shorter : Len(t) = n - 1}, x \in S}

Baskets == SeqsUpTo(InputItems, MaxBasket)
Budgets == {NoBudget, 0, 60, 120, 170}
Discounts == {0, 30, 100}

RECURSIVE SumPrices(_)
\* sum(item.get('price', 0) for item in basket)
SumPrices(basket) ==
    IF basket = <<>> THEN 0 ELSE basket[1].price + SumPrices(Tail(basket))

RECURSIVE SortDesc(_, _)
\* sorted(range(n), key=price, reverse=True): stable, so equal prices keep index order
SortDesc(basket, todo) ==
    IF todo = {} THEN <<>>
    ELSE LET top == CHOOSE i \in todo :
                      \A j \in todo : \/ basket[i].price > basket[j].price
                                      \/ basket[i].price = basket[j].price /\ i <= j
         IN  <<top>> \o SortDesc(basket, todo \ {top})

\* the indices in basket order
IndexOrder(basket) == [k \in DOMAIN basket |-> k]

\* sorted_indices
SortedIndices(basket) == SortDesc(basket, DOMAIN basket)

\* cosine similarity of two finite vectors, in percent
Similarity(e1, e2) == IF e1 = e2 THEN 100 ELSE 50

FiniteVector(e) == e \in {"a", "b"}

UnderMaxPriceSurcharge(price, original_price, disc) ==
    price * 100 < original_price * (100 + disc)

UnderMaxPriceNoDiscount(price, original_price, disc) ==
    price < original_price

\* price_per_unit < original_price * (1 - min_discount)
UnderMaxPrice(price, original_price, disc) ==
    price * 100 < original_price * (100 - disc)

MainComponentLast(mc) == IF mc.t = "list" THEN mc.v[Len(mc.v)] ELSE mc.v

\* the pattern appended to the query: the first role of a list, the whole of a text
MainComponent(mc) == IF mc.t = "list" THEN mc.v[1] ELSE mc.v

\* the WHERE clause of the query
RowSelected(row, item, disc) ==
    /\ row.emb # "null"
    /\ UnderMaxPrice(row.price, item.price, disc)
    /\ (item.mc.v # <<>> => LikeContains(row.mc, MainComponent(item.mc)))

\* a loop over rows that skips none
RowIsCandidateAlways(row, item) == TRUE

\* the checks of the loop over rows that let a row become a candidate
RowIsCandidate(row, item) ==
    /\ row.emb # "empty"
    /\ FiniteVector(row.emb)
    /\ FiniteVector(item.emb)

AsItem(row) ==
    [id |-> row.id, price |-> row.price, mc |-> [t |-> "str", v |-> row.mc], emb |-> row.emb]

\* what _find_cheaper_alternative may return for item: the rows are in no stated
\* order, so among equally similar candidates any one may come first
Alternatives(item, disc, pool) ==
    IF item.emb = "none" THEN {NoAlt}
    ELSE LET cands == {r \in pool : RowSelected(r, item, disc) /\ RowIsCandidate(r, item)}
             other == {r \in cands : r.id # item.id}
             best  == {r \in other :
                         \A q \in other : Similarity(item.emb, r.emb) >= Similarity(item.emb, q.emb)}
         IN  IF other = {} THEN {NoAlt} ELSE {AsItem(r) : r \in best}

EmptyResult ==
    [basket |-> <<>>, total_price |-> 0, saved |-> 0, replacements |-> <<>>,
     within_budget |-> TRUE]

\* a within_budget that is always set
WithinBudgetAlways(total, budget) == TRUE

\* "within_budget": final_price <= budget_rub
WithinBudget(total, budget) == total <= budget

UnchangedResultSorted(basket) ==
    [basket |-> [k \in DOMAIN basket |-> basket[SortedIndices(basket)[k]]],
     total_price |-> SumPrices(basket), saved |-> 0, replacements |-> <<>>,
     within_budget |-> TRUE]

\* the dict returned when no budget is given or the basket already fits it
UnchangedResult(basket) ==
    [basket |-> basket, total_price |-> SumPrices(basket), saved |-> 0,
     replacements |-> <<>>, within_budget |-> TRUE]

ReplaceAtRank(basket, idx, alternative) == [basket EXCEPT ![b_k] = alternative]

\* optimized_basket[idx] = alternative
Replace(basket, idx, alternative) == [basket EXCEPT ![idx] = alternative]

\* optimize up to the for loop: the two early returns, or the set-up of the loop
OptimizeEnter(basket, budget, disc, again) ==
    /\ b_in' = basket
    /\ b_budget' = budget
    /\ b_disc' = disc
    /\ b_again' = again
    /\ b_prev' = IF again THEN b_result ELSE EmptyResult
    /\ b_repl' = <<>>
    /\ b_saved' = 0
    /\ b_found' = [i \in DOMAIN basket |-> NoAlt]
    /\ b_k' = 1
    /\ b_basket' = basket
    /\ UNCHANGED <<b_pool, mvars, gvars, xvars, nvars>>
    /\ IF basket = <<>>
       THEN /\ b_pc' = "done"
            /\ b_order' = <<>>
            /\ b_result' = EmptyResult
       ELSE IF budget = NoBudget \/ SumPrices(basket) <= budget
       THEN /\ b_pc' = "done"
            /\ b_order' = <<>>
            /\ b_result' = UnchangedResult(basket)
       ELSE /\ b_pc' = "loop"
            /\ b_order' = SortedIndices(basket)
            /\ b_result' = EmptyResult

Optimize ==
    /\ b_pc = "idle"
    /\ \E basket \in Baskets, budget \in Budgets, disc \in Discounts :
           OptimizeEnter(basket, budget, disc, FALSE)

\* optimize called on the basket the previous call returned, same budget and discount
OptimizeAgain ==
    /\ b_pc = "done"
    /\ ~b_again
    /\ OptimizeEnter(b_result.basket, b_budget, b_disc, TRUE)

\* one pass of the for loop that does not break
OptimizeVisit ==
    /\ b_pc = "loop"
    /\ b_k <= Len(b_order)
    /\ ~(SumPrices(b_basket) <= b_budget)
    /\ LET idx  == b_order[b_k]
           item == b_basket[idx]
       IN  \E alternative \in Alternatives(item, b_disc, b_pool) :
             /\ b_found' = [b_found EXCEPT ![idx] = alternative]
             /\ IF alternative # NoAlt
                THEN /\ b_basket' = Replace(b_basket, idx, alternative)
                     /\ b_repl' = Append(b_repl, [from |-> item, to |-> alternative,
                                                  saved |-> item.price - alternative.price])
                     /\ b_saved' = b_saved + (item.price - alternative.price)
                ELSE UNCHANGED <<b_basket, b_repl, b_saved>>
    /\ b_k' = b_k + 1
    /\ UNCHANGED <<b_pool, b_pc, b_in, b_budget, b_disc, b_order, b_result, b_again, b_prev>>
    /\ UNCHANGED <<mvars, gvars, xvars, nvars>>

\* the loop ends (break, or sorted_indices exhausted) and optimize returns
OptimizeReturn ==
    /\ b_pc = "loop"
    /\ (b_k > Len(b_order) \/ SumPrices(b_basket) <= b_budget)
    /\ b_pc' = "done"
    /\ b_result' = [basket |-> b_basket, total_price |-> SumPrices(b_basket),
                    saved |-> b_saved, replacements |-> b_repl,
                    within_budget |-> WithinBudget(SumPrices(b_basket), b_budget)]
    /\ UNCHANGED <<b_pool, b_in, b_budget, b_disc, b_basket, b_order, b_k, b_repl,
                   b_saved, b_found, b_again, b_prev>>
    /\ UNCHANGED <<mvars, gvars, xvars, nvars>>

InitBudget ==
    /\ b_pool \in Pools
    /\ b_pc = "idle"
    /\ b_in = <<>>
    /\ b_budget = NoBudget
    /\ b_disc = 0
    /\ b_basket = <<>>
    /\ b_order = <<>>
    /\ b_k = 1
    /\ b_repl = <<>>
    /\ b_saved = 0
    /\ b_found = <<>>
    /\ b_result = EmptyResult
    /\ b_again = FALSE
    /\ b_prev = EmptyResult

NextBudget == Optimize \/ OptimizeAgain \/ OptimizeVisit \/ OptimizeReturn


----------------------------------------------------------------------------
(* ScenarioMatcher (src/agents/compatibility/scenario_matcher.py) *)

MaxLib == 7
MaxPeople == 2

\* ingredient labels and keywords, transliterated
Moloko   == <<"m", "o", "l", "o", "k", "o">>
MolokoUp == <<"M", "o", "l", "o", "k", "o">>
Syr      == <<"s", "y", "r">>
Kurica   == <<"k", "u", "r", "i", "c", "a">>
Myaso    == <<"m", "y", "a", "s", "o">>
Ovoshchi == <<"o", "v", "o", "s", "h", "i">>
Tofu     == <<"t", "o", "f", "u">>
Ris      == <<"r", "i", "s">>
Govyadina == <<"g", "o", "v">>
Ryba     == <<"r", "y", "b", "a">>
Krupa    == <<"k", "r", "u", "p", "a">>
Frukty   == <<"f", "r", "u", "k", "t", "y">>

Tags == {"dairy", "meat", "vegan", "vegetarian", "kosher"}

\* TAG_KEYWORDS, the entries the labels of the model can meet; a tag that is no key
\* of the table has no keyword
TAG_KEYWORDS(tag) ==
    CASE tag = "dairy"      -> <<Moloko, Syr>>
      [] tag = "meat"       -> <<Kurica, Myaso>>
      [] tag = "vegan"      -> <<Ovoshchi, Tofu>>
      [] tag = "vegetarian" -> <<Ovoshchi, Moloko, Syr>>
      [] OTHER              -> <<>>

\* INGREDIENT_COST_ESTIMATE, in the order of the dict
INGREDIENT_COST_ESTIMATE ==
    << <<Kurica, 500>>, <<Govyadina, 600>>, <<Ryba, 800>>, <<Ovoshchi, 300>>,
       <<Krupa, 180>>, <<Moloko, 190>>, <<Syr, 900>>, <<Frukty, 500>> >>

LowerChar(c) == CASE c = "M" -> "m" [] c = "S" -> "s" [] c = "K" -> "k" [] OTHER -> c

\* str.lower()
Lower(text) == [i \in DOMAIN text |-> LowerChar(text[i])]

\* a component of a template; quantities are in hundredths of the unit
Comp(ing, qpp, unit, req, mc) ==
    [ingredient |-> ing, quantity_per_person |-> qpp, unit |-> unit, required |-> req,
     meal_component |-> mc, quantity_scaled |-> 0]

\* the scenarios of data/scenarios.json the model draws its libraries from
Templates == <<
    [id |-> 1, meal_type |-> "dinner", estimated_time_min |-> 20, serves_base |-> 1,
     components |-> <<Comp(Kurica, 15000, "g", TRUE, RoleM), Comp(Ris, 7500, "g", TRUE, RoleS)>>],
    [id |-> 2, meal_type |-> "dinner", estimated_time_min |-> 40, serves_base |-> 2,
     components |-> <<Comp(MolokoUp, 25000, "ml", TRUE, RoleB), Comp(Ovoshchi, 1250, "g", FALSE, RoleS)>>],
    [id |-> 3, meal_type |-> "dinner", estimated_time_min |-> 60, serves_base |-> 1,
     components |-> <<Comp(Ovoshchi, 20000, "g", TRUE, RoleM), Comp(Tofu, 25, "kg", FALSE, <<>>)>>],
    [id |-> 4, meal_type |-> "breakfast", estimated_time_min |-> 10, serves_base |-> 1,
     components |-> <<Comp(Moloko, 125, "l", FALSE, RoleB), Comp(Ris, 5000, "g", TRUE, RoleM)>>],
    [id |-> 5, meal_type |-> "dinner", estimated_time_min |-> 15, serves_base |-> 1,
     components |-> <<Comp(Syr, 3750, "g", TRUE, RoleS)>>],
    [id |-> 6, meal_type |-> "dinner", estimated_time_min |-> 50, serves_base |-> 1,
     components |-> <<Comp(Ris, 475, "g", TRUE, RoleS)>>],
    [id |-> 7, meal_type |-> "dinner", estimated_time_min |-> 30, serves_base |-> 1,
     components |-> <<Comp(Ovoshchi, 10000, "g", TRUE, RoleS), Comp(Ris, 50, "kg", TRUE, RoleS),
                      Comp(Kurica, 30000, "g", TRUE, RoleM)>>],
    [id |-> 8, meal_type |-> "dinner", estimated_time_min |-> 45, serves_base |-> 4,
     components |-> [i \in 1..11 |-> Comp(Ris, 100 * i, "g", i = 1, RoleS)]] >>

\* the libraries: the first templates, never none (_load_scenarios raises)
Libraries == {SubSeq(Templates, 1, j) : j \in 1..Min(MaxLib, Len(Templates))}

\* _check_ingredient_has_tag
CheckIngredientHasTag(ingredient_name, tag) ==
    \E k \in DOMAIN TAG_KEYWORDS(tag) : Contains(Lower(ingredient_name), TAG_KEYWORDS(tag)[k])

HasTagIn(scenario, tags) ==
    \E c \in DOMAIN scenario.components, tag \in tags :
        CheckIngredientHasTag(scenario.components[c].ingredient, tag)

\* the test a scenario passes in _filter_by_tags
PassesTags(scenario, exclude_tags, include_tags) ==
    /\ ~HasTagIn(scenario, exclude_tags)
    /\ (include_tags # {} => HasTagIn(scenario, include_tags))

\* _filter_by_tags
FilterByTags(scenarios, exclude_tags, include_tags) ==
    SelectSeq(scenarios, LAMBDA sc : PassesTags(sc, exclude_tags, include_tags))

NoTime == -1

\* _filter_scenarios (min_serves is never passed)
FilterScenarios(scenarios, meal_types, max_time_min) ==
    SelectSeq(scenarios, LAMBDA sc :
        /\ (meal_types # {} => sc.meal_type \in meal_types)
        /\ (max_time_min # NoTime => sc.estimated_time_min <= max_time_min))

\* the cost the first matching key of INGREDIENT_COST_ESTIMATE gives a label, else 150
IngredientCost(ingredient) ==
    LET hits == {k \in DOMAIN INGREDIENT_COST_ESTIMATE :
                    Contains(Lower(ingredient), INGREDIENT_COST_ESTIMATE[k][1])}
    IN  IF hits = {} THEN 150
        ELSE INGREDIENT_COST_ESTIMATE[CHOOSE k \in hits : \A h \in hits : k <= h][2]

RECURSIVE EstimatedCost(_)
EstimatedCost(components) ==
    IF components = <<>> THEN 0
    ELSE IngredientCost(components[1].ingredient) + EstimatedCost(Tail(components))

\* _compute_scenario_score, in tenths
ComputeScenarioScore(scenario, prefer_quick, prefer_cheap, include_tags) ==
    LET t == scenario.estimated_time_min
        quick == IF ~prefer_quick THEN 0
                 ELSE IF t <= 15 THEN 5 ELSE IF t <= 30 THEN 3 ELSE IF t <= 45 THEN 1 ELSE -2
        cost == EstimatedCost(scenario.components)
        cheap == IF ~prefer_cheap THEN 0
                 ELSE IF cost < 500 THEN 4 ELSE IF cost < 800 THEN 2
                 ELSE IF cost > 1200 THEN -2 ELSE 0
        matches == Cardinality({c \in DOMAIN scenario.components :
                      \E tag \in include_tags :
                          CheckIngredientHasTag(scenario.components[c].ingredient, tag)})
        many == IF Len(scenario.components) > 10 THEN -2 ELSE 0
    IN  10 + quick + cheap + matches + many

RECURSIVE StableSortDesc(_, _)
\* indices of todo by key, largest first, equal keys in index order (list.sort, reverse)
StableSortDesc(key, todo) ==
    IF todo = {} THEN <<>>
    ELSE LET top == CHOOSE i \in todo :
                      \A j \in todo : key[i] > key[j] \/ (key[i] = key[j] /\ i <= j)
         IN  <<top>> \o StableSortDesc(key, todo \ {top})

\* scored_scenarios after the sort: the candidates, best score first
ScoredScenarios(candidates, prefer_quick, prefer_cheap, include_tags) ==
    LET key == [i \in DOMAIN candidates |->
                   ComputeScenarioScore(candidates[i], prefer_quick, prefer_cheap, include_tags)]
        order == StableSortDesc(key, DOMAIN candidates)
    IN  [k \in DOMAIN candidates |-> candidates[order[k]]]

\* min(candidates, key=...): the first candidate of least key
FirstMin(candidates, key(_)) ==
    candidates[CHOOSE i \in DOMAIN candidates :
        \A j \in DOMAIN candidates : key(candidates[i]) < key(candidates[j])
                                     \/ (key(candidates[i]) = key(candidates[j]) /\ i <= j)]

\* round(n / d) of Python for n >= 0: to the nearest integer, a tie to the even one
RoundHalfEven(n, d) ==
    LET q == n \div d
        r == n % d
    IN  IF 2 * r < d THEN q
        ELSE IF 2 * r > d THEN q + 1
        ELSE IF q % 2 = 0 THEN q ELSE q + 1

\* the rounding of _scale_scenario, on hundredths
ScaledQuantity(quantity_per_person, people) ==
    LET scaled == quantity_per_person * people
        rounded == IF scaled < 1000 THEN RoundHalfEven(scaled, 10) * 10
                   ELSE IF scaled < 10000 THEN RoundHalfEven(scaled, 500) * 500
                   ELSE RoundHalfEven(scaled, 1000) * 1000
    IN  Max(rounded, 100)

\* _scale_scenario
ScaleScenario(scenario, people) ==
    [scenario EXCEPT !.components =
        [c \in DOMAIN scenario.components |->
            [scenario.components[c] EXCEPT !.quantity_scaled =
                ScaledQuantity(scenario.components[c].quantity_per_person, people)]]]

NoScenario == [found |-> FALSE, raised |-> FALSE]
Found(scenario) == [found |-> TRUE, raised |-> FALSE, scenario |-> scenario]
Raised == [found |-> FALSE, raised |-> TRUE]

CandidatesIncludeOnly(lib, a) ==
    LET base == FilterScenarios(lib, a.meal_types, a.max_time_min)
    IN  IF base # <<>> /\ a.include_tags # {}
        THEN FilterByTags(base, a.exclude_tags, a.include_tags)
        ELSE base

\* the candidates match selects from
Candidates(lib, a) ==
    LET base == FilterScenarios(lib, a.meal_types, a.max_time_min)
    IN  IF base # <<>> /\ (a.exclude_tags # {} \/ a.include_tags # {})
        THEN FilterByTags(base, a.exclude_tags, a.include_tags)
        ELSE base

\* randint(0, min(5, len(scored_scenarios))): both ends included
DrawRange(n) == 0..Min(5, n)

\* match: what it returns, or that it raises, when the random source gives draw
\* (randint for "smart", the index random.choice picks otherwise)
MatchOutcome(lib, a, draw) ==
    LET candidates == Candidates(lib, a)
        n == Len(candidates)
    IN  IF n = 0 THEN NoScenario
        ELSE IF a.strategy = "smart"
        THEN IF draw + 1 > n THEN Raised
             ELSE Found(ScaleScenario(
                     ScoredScenarios(candidates, a.prefer_quick, a.prefer_cheap,
                                     a.include_tags)[draw + 1], a.people))
        ELSE IF a.strategy = "fastest"
        THEN Found(ScaleScenario(FirstMin(candidates, LAMBDA sc : sc.estimated_time_min),
                                 a.people))
        ELSE IF a.strategy = "simplest"
        THEN Found(ScaleScenario(FirstMin(candidates, LAMBDA sc : Len(sc.components)),
                                 a.people))
        ELSE Found(ScaleScenario(candidates[draw + 1], a.people))

\* the draws the random source can give a call
Draws(lib, a) ==
    LET n == Len(Candidates(lib, a))
    IN  IF n = 0 THEN {0}
        ELSE IF a.strategy = "smart" THEN DrawRange(n)
        ELSE IF a.strategy \in {"fastest", "simplest"} THEN {0}
        ELSE 0..(n - 1)

Strategies == {"smart", "random", "fastest", "simplest", "other"}
ExcludeTagSets == {{}, {"dairy"}, {"meat", "kosher"}, {"vegan", "dairy"}}
IncludeTagSets == {{}, {"vegetarian"}, {"vegan", "dairy"}}

MatchArgs ==
    [meal_types : {{}, {"dinner"}, {"breakfast", "lunch"}},
     people : 1..MaxPeople,
     max_time_min : {NoTime, 30},
     exclude_tags : ExcludeTagSets,
     include_tags : IncludeTagSets,
     prefer_quick : BOOLEAN,
     prefer_cheap : BOOLEAN,
     strategy : Strategies]

NoArgs == [strategy |-> "none"]

Match ==
    /\ m_pc = "idle"
    /\ \E a \in MatchArgs :
         \E draw \in Draws(m_lib, a) :
            /\ m_args' = a
            /\ m_draw' = draw
            /\ m_result' = MatchOutcome(m_lib, a, draw)
            /\ m_pc' = IF MatchOutcome(m_lib, a, draw) = Raised THEN "raised" ELSE "returned"
    /\ UNCHANGED <<m_lib, bvars, gvars, xvars, nvars>>

\* the caller goes on to its next request
MatchDone ==
    /\ m_pc # "idle"
    /\ m_pc' = "idle"
    /\ m_args' = NoArgs
    /\ m_draw' = 0
    /\ m_result' = NoScenario
    /\ UNCHANGED <<m_lib, bvars, gvars, xvars, nvars>>

InitMatcher ==
    /\ m_lib \in Libraries
    /\ m_pc = "idle"
    /\ m_args = NoArgs
    /\ m_draw = 0
    /\ m_result = NoScenario

InitMatcherIdle ==
    /\ m_lib = Templates
    /\ m_pc = "idle"
    /\ m_args = NoArgs
    /\ m_draw = 0
    /\ m_result = NoScenario

InitBudgetIdle ==
    /\ b_pool = PoolRows
    /\ b_pc = "idle"
    /\ b_in = <<>>
    /\ b_budget = NoBudget
    /\ b_disc = 0
    /\ b_basket = <<>>
    /\ b_order = <<>>
    /\ b_k = 1
    /\ b_repl = <<>>
    /\ b_saved = 0
    /\ b_found = <<>>
    /\ b_result = EmptyResult
    /\ b_again = FALSE
    /\ b_prev = EmptyResult

NextMatcher == Match \/ MatchDone



----------------------------------------------------------------------------
(* ScenarioMatcher (src/agent/compatibility/scenario_matcher.py) *)

\* the rounding of its _scale_scenario, on hundredths: scaled = num / serves_base
ScaledQuantityBasic(quantity_per_person, people, serves_base) ==
    LET num == quantity_per_person * people
        rounded == IF num < 1000 * serves_base
                   THEN RoundHalfEven(num, 100 * serves_base) * 100
                   ELSE IF num < 10000 * serves_base
                   THEN RoundHalfEven(num, 500 * serves_base) * 500
                   ELSE RoundHalfEven(num, 1000 * serves_base) * 1000
    IN  Max(rounded, 100)

\* its _scale_scenario
ScaleScenarioBasic(scenario, people) ==
    [scenario EXCEPT !.components =
        [c \in DOMAIN scenario.components |->
            [scenario.components[c] EXCEPT !.quantity_scaled =
                ScaledQuantityBasic(scenario.components[c].quantity_per_person, people,
                                    scenario.serves_base)]]]

\* its match, when the random source picks the candidate of index draw
MatchBasicOutcome(lib, meal_types, people, max_time_min, strategy, draw) ==
    LET candidates == FilterScenarios(lib, meal_types, max_time_min)
    IN  IF candidates = <<>> THEN NoScenario
        ELSE IF strategy = "fastest"
        THEN Found(ScaleScenarioBasic(
                 FirstMin(candidates, LAMBDA sc : sc.estimated_time_min), people))
        ELSE IF strategy = "simplest"
        THEN Found(ScaleScenarioBasic(
                 FirstMin(candidates, LAMBDA sc : Len(sc.components)), people))
        ELSE IF strategy = "first"
        THEN Found(ScaleScenarioBasic(candidates[1], people))
        ELSE Found(ScaleScenarioBasic(candidates[draw + 1], people))

DrawsBasic(lib, meal_types, max_time_min, strategy) ==
    LET n == Len(FilterScenarios(lib, meal_types, max_time_min))
    IN  IF n = 0 \/ strategy \in {"fastest", "simplest", "first"} THEN {0} ELSE 0..(n - 1)

----------------------------------------------------------------------------
(* ProductSearcher and CompatibilityAgent *)

MaxScenarios == 7

\* the scenarios the agents' matchers hold
AgentScenarios == SubSeq(Templates, 1, Min(MaxScenarios, Len(Templates) - 1))

\* rows of products read by ProductSearcher: package_size in hundredths of the unit
SearchRows == {
    [id |-> 11, price_per_unit |-> 300, unit |-> "kg",  package_size |-> 100,
     tags |-> {"meat"},  mc |-> <<"m">>],
    [id |-> 12, price_per_unit |-> 90,  unit |-> "l",   package_size |-> 90,
     tags |-> {"dairy"}, mc |-> <<"b">>],
    [id |-> 13, price_per_unit |-> 50,  unit |-> "sht", package_size |-> 100,
     tags |-> {},        mc |-> <<"s", "|", "m">>],
    [id |-> 14, price_per_unit |-> 120, unit |-> "g",   package_size |-> 40000,
     tags |-> {"vegan"}, mc |-> <<"s">>] }

\* _load_products_with_embeddings with only meal_component given: the three LIKE
\* patterns '%c%', 'c|%', '%|c' keep the rows whose text holds c
LoadProducts(meal_component) ==
    {r \in SearchRows : meal_component # <<>> => LikeContains(r.mc, meal_component)}

\* package_size_grams
PackageSizeGrams(row) ==
    IF row.unit \in {"kg", "l"} THEN row.package_size * 1000 ELSE row.package_size

\* a division that rounds down
FloorDiv(a, b) == a \div b

\* int(np.ceil(a / b)) for a, b > 0
CeilDiv(a, b) == (a + b - 1) \div b

\* round(n / d, 2) in hundredths, for n >= 0 and d > 0
RoundCents(n, d) == (n \div d) * 100 + RoundHalfEven((n % d) * 100, d)

\* the dict search_by_ingredient returns for the row the search ranks first;
\* fractional_cost in kopecks
BestProduct(row, quantity_grams, people) ==
    LET total_quantity_needed == quantity_grams * people
        num_packages == CeilDiv(total_quantity_needed, PackageSizeGrams(row))
    IN  [id |-> row.id, price_per_unit |-> row.price_per_unit, unit |-> row.unit,
         package_size |-> row.package_size, tags |-> row.tags,
         quantity_needed |-> num_packages,
         total_price |-> num_packages * row.price_per_unit,
         fractional_cost |-> RoundCents(total_quantity_needed * row.price_per_unit,
                                        PackageSizeGrams(row)),
         quantity_grams_per_person |-> quantity_grams]

\* lines 199-205 of src/agent/compatibility/agent.py: fractional_cost set again
WithFractionalCost(product, people) ==
    LET actual_needed_grams == product.quantity_grams_per_person * people
        package_grams == product.package_size * (IF product.unit = "kg" THEN 1000 ELSE 1)
    IN  [product EXCEPT !.fractional_cost =
            RoundCents(actual_needed_grams * product.price_per_unit, package_grams)]

\* search of the ProductSearcher of src/agents: the rows left by the tag filters
SearchTagged(exclude_tags, include_tags) ==
    {r \in SearchRows :
        /\ r.tags \cap exclude_tags = {}
        /\ (include_tags # {} => r.tags \cap include_tags # {})}

\* quantity_in_product_units is quantity_needed / UnitDivisor(unit, product_unit)
UnitDivisor(unit, product_unit) ==
    IF (unit = "g" /\ product_unit = "kg") \/ (unit = "ml" /\ product_unit = "l")
    THEN 1000
    ELSE 1

\* create_basket_item for the quantity quantity_needed / divisor: whole packages
\* at price_per_unit
CreateBasketItem(row, quantity_needed, divisor) ==
    LET packages == Max(CeilDiv(quantity_needed, row.package_size * divisor), 1)
    IN  [id |-> row.id, price_per_unit |-> row.price_per_unit, unit |-> row.unit,
         package_size |-> row.package_size, tags |-> row.tags,
         quantity_needed |-> packages,
         total_price |-> packages * row.price_per_unit,
         fractional_cost |-> RoundCents(quantity_needed * row.price_per_unit,
                                        row.package_size * divisor),
         quantity_grams_per_person |-> quantity_needed]

\* total_score of compute_score, in ten-thousandths: 0 for the empty basket, else a
\* value of [0, 1] set by the vectors and names of the products
TotalScores(basket) == IF basket = <<>> THEN {0} ELSE {0, 2999, 3000, 10000}

\* num_negative_pairs of compute_score
NegativePairs(basket) == IF Len(basket) < 2 THEN {0} ELSE {0, 1}

RECURSIVE SumTotalPrice(_)
\* sum(p['total_price'] for p in basket)
SumTotalPrice(basket) ==
    IF basket = <<>> THEN 0 ELSE basket[1].total_price + SumTotalPrice(Tail(basket))

AgentQueries ==
    [meal_types : {{}, {"dinner"}, {"supper"}},
     people : 1..MaxPeople,
     budget_rub : {NoBudget, 0, 400, 5000},
     exclude_tags : {{}, {"dairy"}},
     include_tags : {{}, {"vegan", "dairy"}}]

BasicStrategies == {"random", "fastest", "first"}

NoQuery == [people |-> 0]
NoResult == [kind |-> "none"]

\* "success" of src/agent/compatibility/agent.py
Success(basket, budget_rub, total_price, total_score) ==
    /\ Len(basket) > 0
    /\ (budget_rub = NoBudget \/ total_price <= budget_rub)
    /\ total_score >= 3000

\* a basket that takes each new item at its head
BasketPrepend(basket, item) == <<item>> \o basket

\* basket.append(item)
BasketAppend(basket, item) == Append(basket, item)

\* the dict of the except branch
ExceptionResult(basket, errors) ==
    [kind |-> "exception", success |-> FALSE, basket |-> basket,
     total_price |-> SumTotalPrice(basket), errors |-> Append(errors, "exception")]

\* generate_basket of src/agent up to the for loop
GenerateBasket ==
    /\ g_pc = "idle"
    /\ \E q \in AgentQueries, strategy \in BasicStrategies :
         \E draw \in DrawsBasic(AgentScenarios, q.meal_types, NoTime, strategy) :
            LET scenario == MatchBasicOutcome(AgentScenarios, q.meal_types, q.people,
                                              NoTime, strategy, draw)
            IN  /\ g_impl' = "agent"
                /\ g_query' = q
                /\ g_scenario' = scenario
                /\ g_i' = 1
                /\ g_basket' = <<>>
                /\ g_total' = 0
                /\ g_slots' = <<>>
                /\ IF ~scenario.found
                   THEN /\ g_pc' = "done"
                        /\ g_errors' = <<"no_scenario">>
                        /\ g_result' = [kind |-> "no_scenario", success |-> FALSE,
                                        basket |-> <<>>, total_price |-> 0,
                                        errors |-> <<"no_scenario">>]
                   ELSE /\ g_pc' = "slots"
                        /\ g_errors' = <<>>
                        /\ g_result' = NoResult
    /\ UNCHANGED <<bvars, mvars, xvars, nvars>>

\* one pass of its for loop; fault: the searcher raises
FillSlot ==
    /\ g_pc = "slots"
    /\ g_impl = "agent"
    /\ g_i <= Len(g_scenario.scenario.components)
    /\ LET component == g_scenario.scenario.components[g_i]
       IN  \E fault \in BOOLEAN :
            \E found \in {r \in LoadProducts(component.meal_component) : ~fault} \cup {NoAlt} :
              IF fault
              THEN /\ g_pc' = "done"
                   /\ g_slots' = Append(g_slots, [slot |-> g_i, outcome |-> "raised"])
                   /\ g_errors' = Append(g_errors, "exception")
                   /\ g_result' = ExceptionResult(g_basket, g_errors)
                   /\ UNCHANGED <<g_i, g_basket>>
              ELSE /\ g_pc' = "slots"
                   /\ g_i' = g_i + 1
                   /\ g_result' = NoResult
                   /\ IF found # NoAlt
                      THEN /\ g_basket' = BasketAppend(g_basket,
                                  [slot |-> g_i, required |-> component.required,
                                   product |-> WithFractionalCost(
                                       BestProduct(found, component.quantity_scaled, 1),
                                       g_query.people),
                                   total_price |->
                                       BestProduct(found, component.quantity_scaled, 1).total_price])
                           /\ g_slots' = Append(g_slots, [slot |-> g_i, outcome |-> "found"])
                           /\ UNCHANGED g_errors
                      ELSE /\ g_errors' = Append(g_errors, "not_found")
                           /\ g_slots' = Append(g_slots, [slot |-> g_i, outcome |-> "absent"])
                           /\ UNCHANGED g_basket
    /\ UNCHANGED <<g_impl, g_query, g_scenario, g_total, bvars, mvars, xvars, nvars>>

\* after its loop: budget check, score, result; fault: the scorer raises
Finish ==
    /\ g_pc = "slots"
    /\ g_impl = "agent"
    /\ g_i > Len(g_scenario.scenario.components)
    /\ LET total_price == SumTotalPrice(g_basket)
           over == IF g_query.budget_rub # NoBudget /\ g_query.budget_rub # 0
                      /\ total_price > g_query.budget_rub
                   THEN <<"over_budget">> ELSE <<>>
       IN  \E fault \in BOOLEAN :
            \E total_score \in TotalScores(g_basket), negative \in NegativePairs(g_basket) :
              /\ g_total' = total_price
              /\ IF fault
                 THEN /\ g_errors' = Append(g_errors \o over, "exception")
                      /\ g_result' = ExceptionResult(g_basket, g_errors \o over)
                 ELSE /\ g_errors' = g_errors \o over \o
                                     (IF negative > 0 THEN <<"negative_pairs">> ELSE <<>>)
                      /\ g_result' = [kind |-> "ok",
                                      success |-> Success(g_basket, g_query.budget_rub,
                                                          total_price, total_score),
                                      basket |-> g_basket,
                                      total_price |-> total_price,
                                      total_score |-> total_score,
                                      errors |-> g_errors']
    /\ g_pc' = "done"
    /\ UNCHANGED <<g_impl, g_query, g_scenario, g_i, g_basket, g_slots, bvars, mvars, xvars, nvars>>

\* prefer_cheap as generate_basket of src/agents sets it (the query carries none)
PreferCheap(budget_rub) == budget_rub # NoBudget /\ budget_rub < 1000

SmartArgs(q) ==
    [meal_types |-> q.meal_types, people |-> q.people, max_time_min |-> NoTime,
     exclude_tags |-> q.exclude_tags, include_tags |-> q.include_tags,
     prefer_quick |-> FALSE, prefer_cheap |-> PreferCheap(q.budget_rub),
     strategy |-> "smart"]

\* generate_basket of src/agents up to the for loop
GenerateBasketSmart ==
    /\ g_pc = "idle"
    /\ \E q \in AgentQueries :
         \E draw \in Draws(AgentScenarios, SmartArgs(q)) :
            LET scenario == MatchOutcome(AgentScenarios, SmartArgs(q), draw)
            IN  /\ g_impl' = "agents"
                /\ g_query' = q
                /\ g_scenario' = scenario
                /\ g_i' = 1
                /\ g_basket' = <<>>
                /\ g_total' = 0
                /\ g_slots' = <<>>
                /\ g_errors' = <<>>
                /\ IF scenario.raised
                   THEN /\ g_pc' = "escaped"
                        /\ g_result' = NoResult
                   ELSE IF ~scenario.found
                   THEN /\ g_pc' = "done"
                        /\ g_result' = [kind |-> "no_scenario", success |-> FALSE,
                                        basket |-> <<>>, total_price |-> 0,
                                        errors |-> <<>>]
                   ELSE /\ g_pc' = "slots"
                        /\ g_result' = NoResult
    /\ UNCHANGED <<bvars, mvars, xvars, nvars>>

\* one pass of its for loop; fault: the searcher or create_basket_item raises
FillSlotSmart ==
    /\ g_pc = "slots"
    /\ g_impl = "agents"
    /\ g_i <= Len(g_scenario.scenario.components)
    /\ LET component == g_scenario.scenario.components[g_i]
       IN  \E fault \in BOOLEAN :
            \E best \in {r \in SearchTagged(g_query.exclude_tags, g_query.include_tags) : ~fault}
                        \cup {NoAlt} :
              IF fault
              THEN /\ g_pc' = "escaped"
                   /\ g_slots' = Append(g_slots, [slot |-> g_i, outcome |-> "raised"])
                   /\ UNCHANGED <<g_i, g_basket, g_total>>
              ELSE /\ g_pc' = "slots"
                   /\ g_i' = g_i + 1
                   /\ IF best # NoAlt
                      THEN LET item == CreateBasketItem(best, component.quantity_scaled,
                                           UnitDivisor(component.unit, best.unit))
                           IN  /\ g_basket' = BasketAppend(g_basket,
                                      [slot |-> g_i, required |-> component.required,
                                       product |-> item, total_price |-> item.total_price])
                               /\ g_total' = g_total + item.total_price
                               /\ g_slots' = Append(g_slots, [slot |-> g_i, outcome |-> "found"])
                      ELSE /\ g_slots' = Append(g_slots, [slot |-> g_i, outcome |-> "absent"])
                           /\ UNCHANGED <<g_basket, g_total>>
    /\ UNCHANGED <<g_impl, g_query, g_scenario, g_errors, g_result, bvars, mvars, xvars, nvars>>

\* after its loop: score, budget check, result; fault: the scorer raises
FinishSmart ==
    /\ g_pc = "slots"
    /\ g_impl = "agents"
    /\ g_i > Len(g_scenario.scenario.components)
    /\ \E fault \in BOOLEAN :
        \E total_score \in TotalScores(g_basket) :
          IF fault
          THEN /\ g_pc' = "escaped"
               /\ UNCHANGED g_result
          ELSE /\ g_pc' = "done"
               /\ g_result' = [kind |-> "ok", success |-> TRUE, basket |-> g_basket,
                               total_price |-> g_total, total_score |-> total_score,
                               within_budget |->
                                   ~(g_query.budget_rub # NoBudget /\ g_query.budget_rub # 0
                                     /\ g_total > g_query.budget_rub)]
    /\ UNCHANGED <<g_impl, g_query, g_scenario, g_i, g_basket, g_total, g_errors, g_slots,
                   bvars, mvars, xvars, nvars>>

InitAgent ==
    /\ g_impl = "agent"
    /\ g_pc = "idle"
    /\ g_query = NoQuery
    /\ g_scenario = NoScenario
    /\ g_i = 1
    /\ g_basket = <<>>
    /\ g_total = 0
    /\ g_errors = <<>>
    /\ g_slots = <<>>
    /\ g_result = NoResult

NextAgent ==
    \/ GenerateBasket \/ FillSlot \/ Finish
    \/ GenerateBasketSmart \/ FillSlotSmart \/ FinishSmart

----------------------------------------------------------------------------
(* _scale_scenario of both ScenarioMatcher classes, on one component *)

MaxScalePeople == 4

\* quantity_per_person values, in hundredths: positive, on both sides of each tier
ScaleQuantities ==
    {1, 25, 49, 50, 51, 125, 150, 250, 333, 475, 950, 999, 1000, 1250, 2475, 3750,
     4975, 5000, 9750, 10000, 12500, 15000, 25000}

ScaleInputs ==
    [quantity_per_person : ScaleQuantities,
     people : 1..MaxScalePeople,
     serves_base : {1, 2, 4}]

NoInput == [people |-> 0]
NoOutput == [none |-> TRUE]

\* _scale_scenario of src/agents on the component
ScaleSmart ==
    /\ "smart" \notin k_pc
    /\ k_pc' = k_pc \cup {"smart"}
    /\ k_out' = [k_out EXCEPT !.smart = ScaledQuantity(k_in.quantity_per_person, k_in.people)]
    /\ UNCHANGED <<k_in, bvars, mvars, gvars, pvars, svars, evars, nvars>>

\* _scale_scenario of src/agent on the component
ScaleBasic ==
    /\ "basic" \notin k_pc
    /\ k_pc' = k_pc \cup {"basic"}
    /\ k_out' = [k_out EXCEPT !.basic = ScaledQuantityBasic(k_in.quantity_per_person,
                                                             k_in.people, k_in.serves_base)]
    /\ UNCHANGED <<k_in, bvars, mvars, gvars, pvars, svars, evars, nvars>>

InitScale ==
    /\ k_pc = {}
    /\ k_in \in ScaleInputs
    /\ k_out = [smart |-> 0, basic |-> 0]

InitScaleIdle ==
    /\ k_pc = {}
    /\ k_in = NoInput
    /\ k_out = [smart |-> 0, basic |-> 0]

NextScale == ScaleSmart \/ ScaleBasic

----------------------------------------------------------------------------
(* Package arithmetic of the two slot fillers, on one slot and one product *)

MaxPackPeople == 2

\* slot quantities, in hundredths of the slot's unit
PackQuantities == {1, 100, 200, 25000, 90000, 100000, 100100, 150000}

\* the units a scenario component declares
SlotUnits == {"g", "ml", "kg", "l", "sht"}

\* the product the search ranked first: unit of the pool, package_size in hundredths
PackRows ==
    [id : {21}, tags : {{}},
     unit : {"kg", "l", "sht"},
     package_size : {50, 90, 100, 200},
     price_per_unit : {90, 300}]

PackInputs ==
    [quantity : PackQuantities, unit : SlotUnits, people : 1..MaxPackPeople, row : PackRows]

\* search_by_ingredient of src/agent on the product ranked first: the slot's unit is
\* not among its arguments
PackBasic ==
    /\ "basic" \notin p_pc
    /\ p_pc' = p_pc \cup {"basic"}
    /\ p_out' = [p_out EXCEPT !.basic = BestProduct(p_in.row, p_in.quantity, p_in.people)]
    /\ UNCHANGED <<p_in, bvars, mvars, gvars, kvars, svars, evars, nvars>>

\* the unit conversion and create_basket_item of generate_basket of src/agents
PackSmart ==
    /\ "smart" \notin p_pc
    /\ p_pc' = p_pc \cup {"smart"}
    /\ p_out' = [p_out EXCEPT !.smart =
                    CreateBasketItem(p_in.row, p_in.quantity,
                                     UnitDivisor(p_in.unit, p_in.row.unit))]
    /\ UNCHANGED <<p_in, bvars, mvars, gvars, kvars, svars, evars, nvars>>

InitPack ==
    /\ p_pc = {}
    /\ p_in \in PackInputs
    /\ p_out = [basic |-> NoOutput, smart |-> NoOutput]

InitPackIdle ==
    /\ p_pc = {}
    /\ p_in = NoInput
    /\ p_out = [basic |-> NoOutput, smart |-> NoOutput]

NextPack == PackBasic \/ PackSmart

----------------------------------------------------------------------------
(* CompatibilityScorer.compute_score; scores in ten-thousandths *)

MaxScoreBasket == 3

\* positive_pairs and negative_pairs of the compatibility matrix
positive_pairs == {<<Kurica, Ris>>, <<Syr, Ovoshchi>>}
negative_pairs == {<<Moloko, Ryba>>, <<Kurica, Ris>>}

\* the cosine of two embeddings, in halves: 1, 0, -1 or 0.5
Cosine(e1, e2) ==
    IF e1 = e2 THEN 2
    ELSE IF {e1, e2} = {"a", "b"} THEN 0
    ELSE IF {e1, e2} = {"a", "c"} THEN -2
    ELSE 1

\* products of a basket: product_name, meal_components, embedding (None: "null")
ScoreItems == {
    [product_name |-> Kurica,   meal_components |-> <<"main_course">>, embedding |-> "a"],
    [product_name |-> Ris,      meal_components |-> <<"side_dish", "main_course">>,
     embedding |-> "b"],
    [product_name |-> MolokoUp, meal_components |-> <<"beverage">>, embedding |-> "c"],
    [product_name |-> Ryba,     meal_components |-> <<"main_course", "sauce", "bakery">>,
     embedding |-> "null"],
    [product_name |-> Frukty,   meal_components |-> <<>>, embedding |-> "c"] }

\* weights, in tenths; the first is the default
WeightSets == {
    [embedding_similarity |-> 5,   rule_based |-> 3,  component_balance |-> 2],
    [embedding_similarity |-> -10, rule_based |-> 0,  component_balance |-> 0],
    [embedding_similarity |-> 30,  rule_based |-> 30, component_balance |-> 30],
    [embedding_similarity |-> 0,   rule_based |-> 0,  component_balance |-> 0] }

ScoreInputs == [basket : SeqsUpTo(ScoreItems, MaxScoreBasket), weights : WeightSets]

RECURSIVE SumFn(_, _)
\* the sum of f over the set S
SumFn(f, S) ==
    IF S = {} THEN 0
    ELSE LET x == CHOOSE y \in S : TRUE IN f[x] + SumFn(f, S \ {x})

\* the index pairs i < j
Pairs(S) == {pr \in S \X S : pr[1] < pr[2]}

\* a value left as it is
NoClamp(lo, hi, x) == x

\* max(lo, min(hi, x))
Clamp(lo, hi, x) == Max(lo, Min(hi, x))

\* _check_pair_compatibility, in tenths
CheckPairCompatibility(name1, name2) ==
    LET Hit(pair) == \/ (Contains(Lower(name1), Lower(pair[1]))
                            /\ Contains(Lower(name2), Lower(pair[2])))
                     \/ (Contains(Lower(name2), Lower(pair[1]))
                            /\ Contains(Lower(name1), Lower(pair[2])))
    IN  IF \E pair \in positive_pairs : Hit(pair) THEN 1
        ELSE IF \E pair \in negative_pairs : Hit(pair) THEN -2
        ELSE 0

\* _compute_embedding_similarity, as the fraction num / den
EmbeddingSimilarity(basket) ==
    LET with == {i \in DOMAIN basket : basket[i].embedding # "null"}
        pairs == Pairs(with)
    IN  IF Cardinality(with) < 2 THEN [num |-> 1, den |-> 2]
        ELSE [num |-> SumFn([pr \in pairs |->
                                Cosine(basket[pr[1]].embedding, basket[pr[2]].embedding)],
                            pairs),
              den |-> 2 * Cardinality(pairs)]

\* _compute_meal_component_balance, in tenths
MealComponentBalance(basket) ==
    LET all_components == UNION {Range(basket[i].meal_components) : i \in DOMAIN basket}
        Count(comp) == SumFn([i \in DOMAIN basket |->
                                 Cardinality({k \in DOMAIN basket[i].meal_components :
                                                 basket[i].meal_components[k] = comp})],
                             DOMAIN basket)
        score == (IF "main_course" \in all_components THEN 4 ELSE 0)
                 + (IF "side_dish" \in all_components \/ "salad" \in all_components
                    THEN 3 ELSE 0)
                 + (IF "beverage" \in all_components THEN 1 ELSE 0)
                 + (IF "sauce" \in all_components THEN 1 ELSE 0)
                 + (IF "bakery" \in all_components THEN 1 ELSE 0)
                 - (IF Count("main_course") > 2 THEN 2 ELSE 0)
    IN  Clamp(0, 10, score)

\* compute_score
ComputeScore(basket, weights) ==
    IF Len(basket) = 0
    THEN [total_score |-> 0, embedding_similarity |-> 0, rule_based |-> 0,
          component_balance |-> 0, num_products |-> 0,
          num_positive_pairs |-> 0, num_negative_pairs |-> 0]
    ELSE
    LET emb == EmbeddingSimilarity(basket)
        pairs == Pairs(DOMAIN basket)
        modifier == [pr \in pairs |->
                        CheckPairCompatibility(basket[pr[1]].product_name,
                                               basket[pr[2]].product_name)]
        num_pairs == Cardinality(pairs)
        \* rule_score = 0.5 + rule_modifier / num_pairs * 2.5, as rule_num / rule_den
        rule_den == IF num_pairs > 0 THEN 4 * num_pairs ELSE 2
        rule_num == IF num_pairs > 0
                    THEN Clamp(0, rule_den, 2 * num_pairs + SumFn(modifier, pairs))
                    ELSE 1
        balance == MealComponentBalance(basket)
        den == emb.den * rule_den * 100
        num == emb.num * weights.embedding_similarity * rule_den * 10
               + rule_num * weights.rule_based * emb.den * 10
               + balance * weights.component_balance * emb.den * rule_den
    IN  [total_score |-> RoundHalfEven(Clamp(0, den, num) * 10000, den),
         embedding_similarity |-> RoundHalfEven(emb.num * 10000, emb.den),
         rule_based |-> RoundHalfEven(rule_num * 10000, rule_den),
         component_balance |-> balance * 1000,
         num_products |-> Len(basket),
         num_positive_pairs |-> Cardinality({pr \in pairs : modifier[pr] > 0}),
         num_negative_pairs |-> Cardinality({pr \in pairs : modifier[pr] < 0})]

\* a call of compute_score
Score ==
    /\ s_pc = "in"
    /\ s_pc' = "out"
    /\ s_out' = ComputeScore(s_in.basket, s_in.weights)
    /\ UNCHANGED <<s_in, bvars, mvars, gvars, kvars, pvars, evars, nvars>>

InitScore ==
    /\ s_pc = "in"
    /\ s_in \in ScoreInputs
    /\ s_out = NoOutput

InitScoreIdle ==
    /\ s_pc = "in"
    /\ s_in = NoInput
    /\ s_out = NoOutput

NextScore == Score

----------------------------------------------------------------------------
(* CompatibilityEnv (src/agent/compatibility_env.py) *)

\* step calls per episode that the model follows
MaxEnvSteps == 5

\* max_steps of the constructor
max_steps == 3

NoAction == -1

\* MEAL_REQUIREMENTS, and the lunch entry for a meal type that is not a key
MEAL_REQUIREMENTS(meal_type) ==
    CASE meal_type = "breakfast" ->
            [required |-> {"bakery", "beverage"}, optional |-> {"dessert", "main_course"},
             min_items |-> 3, max_items |-> 8]
      [] meal_type = "dinner" ->
            [required |-> {"main_course", "side_dish", "beverage"},
             optional |-> {"salad", "sauce"}, min_items |-> 5, max_items |-> 12]
      [] meal_type = "snack" ->
            [required |-> {"beverage"}, optional |-> {"dessert", "bakery", "snack"},
             min_items |-> 2, max_items |-> 5]
      [] OTHER ->
            [required |-> {"main_course", "side_dish", "beverage"},
             optional |-> {"salad", "dessert", "bakery"}, min_items |-> 5, max_items |-> 12]

\* the components _calculate_component_coverage knows
CoverageComponents ==
    {"main_course", "side_dish", "beverage", "bakery", "dessert", "salad", "sauce"}

\* a Python list as a function on 0..len-1
ZeroBased(seq) == [i \in 0..(Len(seq) - 1) |-> seq[i + 1]]

\* product names, transliterated and in lower case
Kotleta == <<"k", "o", "t", "l", "e", "t", "a">>
Grechka == <<"g", "r", "e", "c", "h", "k", "a">>
Sok     == <<"s", "o", "k">>
Tort    == <<"t", "o", "r", "t">>
Kvas    == <<"k", "v", "a", "s">>
Plov    == <<"p", "l", "o", "v">>
Zefir   == <<"z", "e", "f", "i", "r">>
Baton   == <<"b", "a", "t", "o", "n">>
Sous    == <<"s", "o", "u", "s">>

\* inappropriate_keywords of _calculate_reward: the ones the names above can hold
inappropriate_keywords == {Tort, Zefir}

\* product lists: product_name, product_category, price_per_unit in roubles,
\* meal_components
EnvProductLists == {
    ZeroBased(<<[product_name |-> Kotleta, product_category |-> "meat",
                 price_per_unit |-> 60,  meal_components |-> {"main_course"}],
                [product_name |-> Grechka, product_category |-> "grocery",
                 price_per_unit |-> 40,  meal_components |-> {"side_dish", "salad"}],
                [product_name |-> Sok, product_category |-> "drinks",
                 price_per_unit |-> 30,  meal_components |-> {"beverage"}],
                [product_name |-> Tort, product_category |-> "sweets",
                 price_per_unit |-> 100, meal_components |-> {"dessert"}],
                [product_name |-> Kvas, product_category |-> "drinks",
                 price_per_unit |-> 0,   meal_components |-> {"snack", "beverage"}]>>),
    ZeroBased(<<[product_name |-> Plov, product_category |-> "meat",
                 price_per_unit |-> 50,  meal_components |-> {"main_course", "side_dish"}],
                [product_name |-> Zefir, product_category |-> "sweets",
                 price_per_unit |-> 80,  meal_components |-> {}],
                [product_name |-> Baton, product_category |-> "bakery",
                 price_per_unit |-> 200, meal_components |-> {"bakery"}],
                [product_name |-> Sous, product_category |-> "grocery",
                 price_per_unit |-> 10,  meal_components |-> {"sauce"}]>>) }

EnvBudgets == {0, 100, 200}

EnvMealTypes == {"snack", "dinner", "brunch"}

\* n_products
NProducts(products) == Cardinality(DOMAIN products)

\* _calculate_component_coverage: the components marked True
Coverage(products, cart) ==
    {comp \in CoverageComponents :
        \E k \in DOMAIN cart : comp \in products[cart[k]].meal_components}

\* missing_required
MissingRequired(products, cart, meal_type) ==
    MEAL_REQUIREMENTS(meal_type).required \ Coverage(products, cart)

\* a mask that keeps the products of the cart
KeepCart(mask, cart) == mask

\* rule 1 of action_masks: mask[idx] = False for the products of the cart
MaskCart(mask, cart) == mask \ Range(cart)

\* a cap nothing exceeds
NeverOverCap(current_sum, price, budget) == FALSE

\* current_sum + price > budget * 1.3
OverCap(current_sum, price, budget) == 10 * (current_sum + price) > 13 * budget

\* rule 2 of action_masks
MaskBudget(mask, products, current_sum, budget) ==
    {i \in mask : i < NProducts(products) =>
                     ~OverCap(current_sum, products[i].price_per_unit, budget)}

\* a rule 3 that is never dropped
PrioritizeRequiredAlways(mask, products, cart, meal_type) ==
    LET missing_required == MissingRequired(products, cart, meal_type)
        has_required_mask ==
            {i \in mask : i < NProducts(products)
                          /\ products[i].meal_components \cap missing_required # {}}
    IN  IF missing_required # {}
           /\ Len(cart) < MEAL_REQUIREMENTS(meal_type).max_items - 2
        THEN has_required_mask \cup (mask \cap {NProducts(products)})
        ELSE mask

\* rule 3 of action_masks
PrioritizeRequired(mask, products, cart, meal_type) ==
    LET missing_required == MissingRequired(products, cart, meal_type)
        has_required_mask ==
            {i \in mask : i < NProducts(products)
                          /\ products[i].meal_components \cap missing_required # {}}
    IN  IF missing_required # {}
           /\ Len(cart) < MEAL_REQUIREMENTS(meal_type).max_items - 2
           /\ has_required_mask # {}
        THEN has_required_mask \cup (mask \cap {NProducts(products)})
        ELSE mask

\* a last rule that forbids the skip action
ClearSkip(mask, n_products) == mask \ {n_products}

\* rule 4 of action_masks: mask[-1] = True
SetSkip(mask, n_products) == mask \cup {n_products}

\* action_masks: the actions marked True
ActionMasks(products, cart, current_sum, budget, meal_type) ==
    SetSkip(
        PrioritizeRequired(
            MaskBudget(MaskCart(0..NProducts(products), cart), products, current_sum, budget),
            products, cart, meal_type),
        NProducts(products))

\* the value of e_last before any step of the episode
NoStep ==
    [action |-> NoAction, added |-> FALSE, raised |-> FALSE, reward |-> 0,
     required_bonus |-> 0, optional_bonus |-> 0,
     terminated |-> FALSE, truncated |-> FALSE]

\* _calculate_reward, block 1: cart is self.cart_indices at the time of the call,
\* the picked product already appended by step
RequiredGapBonus(products, cart, action, meal_type) ==
    LET coverage_before == Coverage(products, cart)
        missing_required == MEAL_REQUIREMENTS(meal_type).required \ coverage_before
    IN  IF products[action].meal_components \cap missing_required # {} THEN 10 ELSE 0

\* _calculate_reward, block 2
OptionalGapBonus(products, cart, action, meal_type) ==
    LET coverage_before == Coverage(products, cart)
        missing_optional == MEAL_REQUIREMENTS(meal_type).optional \ coverage_before
    IN  IF products[action].meal_components \cap missing_optional # {} THEN 4 ELSE 0

\* _calculate_reward, block 3: the categories of cart_indices[:-1]
CategoryPenalty(products, cart, action) ==
    LET cart_categories ==
            {products[cart[k]].product_category : k \in 1..(Len(cart) - 1)}
    IN  IF products[action].product_category \in cart_categories THEN -8 ELSE 0

\* _calculate_reward, block 4: meal_type is the constraint itself, not the
\* requirements it falls back to
KeywordPenalty(products, cart, action, meal_type) ==
    IF /\ meal_type \in {"lunch", "dinner"}
       /\ \E keyword \in inappropriate_keywords :
              Contains(products[action].product_name, keyword)
       /\ Len(cart) <= 2
    THEN -6 ELSE 0

\* _calculate_reward, block 5
BudgetPenalty(current_sum, budget) ==
    IF 10 * current_sum > 12 * budget THEN -12
    ELSE IF current_sum > budget THEN -6 ELSE 0

\* _calculate_reward, block 6, for budget # 0: budget_ratio = current_sum / budget
BudgetBonus(current_sum, budget) ==
    IF 10 * current_sum >= 8 * budget /\ current_sum <= budget THEN 6
    ELSE IF 10 * current_sum >= 6 * budget /\ 10 * current_sum <= 12 * budget THEN 3
    ELSE 0

\* a terminated that looks at the goal only
TerminatedAtGoal(products, cart, current_sum, budget, meal_type) ==
    LET requirements == MEAL_REQUIREMENTS(meal_type)
    IN  /\ requirements.required \subseteq Coverage(products, cart)
        /\ Len(cart) >= requirements.min_items

\* terminated of step, from the cart and the sum after the action
Terminated(products, cart, current_sum, budget, meal_type) ==
    LET requirements == MEAL_REQUIREMENTS(meal_type)
        required_covered == requirements.required \subseteq Coverage(products, cart)
    IN  \/ Len(cart) >= requirements.max_items
        \/ 10 * current_sum > 13 * budget
        \/ (required_covered /\ Len(cart) >= requirements.min_items)

\* truncated of step
Truncated(steps) == steps >= max_steps

\* the bonus step adds when the episode ends
FinalReward(products, cart, meal_type) ==
    LET requirements == MEAL_REQUIREMENTS(meal_type)
        required_covered == requirements.required \subseteq Coverage(products, cart)
        unique_categories ==
            Cardinality({products[cart[k]].product_category : k \in DOMAIN cart})
    IN  IF required_covered /\ Len(cart) >= requirements.min_items
        THEN 30 + (IF unique_categories >= 5 THEN 20
                   ELSE IF unique_categories >= 3 THEN 10 ELSE 0)
        ELSE IF Len(cart) = 0 THEN -20 ELSE 0

\* reset
Reset ==
    /\ e_products # <<>>
    /\ e_cart' = <<>>
    /\ e_sum' = 0
    /\ e_steps' = 0
    /\ e_masked' = TRUE
    /\ e_last' = NoStep
    /\ UNCHANGED <<e_products, e_budget, e_meal, bvars, mvars, gvars, kvars, pvars, svars, nvars>>

\* step(action) for an action of the action space. A new product is appended
\* and paid before _calculate_reward runs; with a budget of 0 its
\* budget_ratio = current_sum / budget raises ZeroDivisionError and step returns
\* nothing, the counter, the cart and the sum already changed.
Step ==
    /\ e_products # <<>>
    /\ e_steps < MaxEnvSteps
    /\ \E action \in 0..NProducts(e_products) :
         LET skip == action >= NProducts(e_products)
             added == ~skip /\ action \notin Range(e_cart)
             cart == IF added THEN Append(e_cart, action) ELSE e_cart
             current_sum == IF added
                            THEN e_sum + e_products[action].price_per_unit
                            ELSE e_sum
             raised == added /\ e_budget = 0
             required_bonus == IF added
                               THEN RequiredGapBonus(e_products, cart, action, e_meal)
                               ELSE 0
             optional_bonus == IF added
                               THEN OptionalGapBonus(e_products, cart, action, e_meal)
                               ELSE 0
             reward == IF skip THEN -2
                       ELSE IF ~added THEN -5
                       ELSE required_bonus + optional_bonus
                            + CategoryPenalty(e_products, cart, action)
                            + KeywordPenalty(e_products, cart, action, e_meal)
                            + BudgetPenalty(current_sum, e_budget)
                            + BudgetBonus(current_sum, e_budget)
             terminated == Terminated(e_products, cart, current_sum, e_budget, e_meal)
             truncated == Truncated(e_steps + 1)
         IN  /\ e_steps' = e_steps + 1
             /\ e_cart' = cart
             /\ e_sum' = current_sum
             /\ e_masked' = (e_masked /\ action \in ActionMasks(e_products, e_cart, e_sum,
                                                                  e_budget, e_meal))
             /\ e_last' = IF raised
                          THEN [NoStep EXCEPT !.action = action, !.added = TRUE,
                                              !.raised = TRUE]
                          ELSE [action |-> action, added |-> added, raised |-> FALSE,
                                reward |-> reward
                                           + (IF terminated \/ truncated
                                              THEN FinalReward(e_products, cart, e_meal)
                                              ELSE 0),
                                required_bonus |-> required_bonus,
                                optional_bonus |-> optional_bonus,
                                terminated |-> terminated,
                                truncated |-> truncated]
    /\ UNCHANGED <<e_products, e_budget, e_meal, bvars, mvars, gvars, kvars, pvars, svars, nvars>>

\* the environment as __init__ leaves it
InitEnv ==
    /\ e_products \in EnvProductLists
    /\ e_budget \in EnvBudgets
    /\ e_meal \in EnvMealTypes
    /\ e_cart = <<>>
    /\ e_sum = 0
    /\ e_steps = 0
    /\ e_masked = TRUE
    /\ e_last = NoStep

InitEnvIdle ==
    /\ e_products = <<>>
    /\ e_budget = 0
    /\ e_meal = "lunch"
    /\ e_cart = <<>>
    /\ e_sum = 0
    /\ e_steps = 0
    /\ e_masked = TRUE
    /\ e_last = NoStep

NextEnv == Reset \/ Step

----------------------------------------------------------------------------
(* The basket total of the budget agent *)

MaxTotalBasket == 2

\* a key the item dict does not have
NoField == -1

\* items as the tests and the compatibility agent build them: roubles
TotalItems == {
    [price |-> 80,  price_per_unit |-> NoField, quantity |-> 2, total_price |-> NoField],
    [price |-> 40,  price_per_unit |-> NoField, quantity |-> 1, total_price |-> NoField],
    [price |-> 120, price_per_unit |-> NoField, quantity |-> NoField,
     total_price |-> NoField],
    [price |-> NoField, price_per_unit |-> 85, quantity |-> 2, total_price |-> 170],
    [price |-> NoField, price_per_unit |-> 45, quantity |-> 1, total_price |-> NoField],
    [price |-> 50,  price_per_unit |-> 50, quantity |-> 3, total_price |-> 100] }

TotalBaskets == SeqsUpTo(TotalItems, MaxTotalBasket)

TotalBudgets == {NoBudget, 100, 200, 300}

\* item.get(key, default)
Get(item, key, default) == IF item[key] = NoField THEN default ELSE item[key]

RECURSIVE CalculateTotal(_)
\* calculate_total: total_price when the item has one, otherwise the unit price
\* (price, or price_per_unit) times quantity, quantity 1 when absent
CalculateTotal(basket) ==
    IF basket = <<>> THEN 0
    ELSE LET item == Head(basket)
             unit_price == Get(item, "price", Get(item, "price_per_unit", 0))
         IN  (IF item.total_price # NoField
              THEN item.total_price
              ELSE unit_price * Get(item, "quantity", 1))
             + CalculateTotal(Tail(basket))

RECURSIVE OriginalPrice(_)
\* optimize: original_price = sum(item.get('price', 0) for item in basket)
OriginalPrice(basket) ==
    IF basket = <<>> THEN 0
    ELSE Get(Head(basket), "price", 0) + OriginalPrice(Tail(basket))

\* optimize up to its second return: the total it computes and whether it
\* returns the basket as within the budget
CompareWithBudget ==
    /\ t_pc = "in"
    /\ t_pc' = "out"
    /\ LET original_price == OriginalPrice(t_in.basket)
       IN  t_out' = [original_price |-> original_price,
                     within_budget |-> \/ t_in.basket = <<>>
                                       \/ t_in.budget_rub = NoBudget
                                       \/ original_price <= t_in.budget_rub]
    /\ UNCHANGED <<t_in, bvars, mvars, gvars, xvars, qvars, wvars>>

InitTotal ==
    /\ t_pc = "in"
    /\ t_in \in [basket : TotalBaskets, budget_rub : TotalBudgets]
    /\ t_out = NoOutput

InitTotalIdle ==
    /\ t_pc = "in"
    /\ t_in = NoInput
    /\ t_out = NoOutput

NextTotal == CompareWithBudget

InitQueryIdle ==
    /\ q_pc = {}
    /\ q_in = NoInput
    /\ q_out = [searcher |-> {}, fetch |-> {}]

InitMultiIdle ==
    /\ w_products = <<>>
    /\ w_exclude = {}
    /\ w_include = {}
    /\ w_budget = 0
    /\ w_budget_indices = {}
    /\ w_profile_indices = {}
    /\ w_cart = <<>>
    /\ w_sum = 0
    /\ w_steps = 0

----------------------------------------------------------------------------
(* MultiActionMaskedBasketEnv (src/agent/multi_action_masked_env.py) *)

\* step calls per episode that the model follows
MaxMultiSteps == 2

\* product lists: price_per_unit in roubles, product_category, tags; a product of
\* price 0 is the padding of pad_products_to_k
MultiProductLists == {
    ZeroBased(<<[price_per_unit |-> 50,  product_category |-> "meat",   tags |-> {"meat"}],
                [price_per_unit |-> 100, product_category |-> "milk",   tags |-> {"dairy"}],
                [price_per_unit |-> 30,  product_category |-> "greens", tags |-> {"vegan"}]>>),
    ZeroBased(<<[price_per_unit |-> 80,  product_category |-> "milk",
                 tags |-> {"dairy", "organic"}],
                [price_per_unit |-> 0,   product_category |-> "pad",    tags |-> {}],
                [price_per_unit |-> 40,  product_category |-> "milk",   tags |-> {"dairy"}]>>),
    ZeroBased(<<[price_per_unit |-> 60,  product_category |-> "meat",   tags |-> {"meat"}],
                [price_per_unit |-> 20,  product_category |-> "greens", tags |-> {}]>>) }

MultiExcludeTags == {{}, {"dairy"}, {"dairy", "meat"}}

MultiIncludeTags == {{}, {"vegan"}, {"organic"}}

MultiBudgets == {100, 1500}

\* all_valid_indices
AllValidIndices(products) == {i \in DOMAIN products : products[i].price_per_unit > 0}

\* _precompute_role_indices, part 1: the priced products at or below the mean
\* price of the priced products, all priced products when there is none
BudgetIndices(products) ==
    LET valid == AllValidIndices(products)
        total == SumFn([i \in DOMAIN products |-> products[i].price_per_unit], valid)
        cheap == {i \in valid : products[i].price_per_unit * Cardinality(valid) <= total}
    IN  IF cheap = {} THEN valid ELSE cheap

\* the products the tag filters of _precompute_role_indices keep
ProfileFiltered(products, exclude_tags, include_tags) ==
    {i \in AllValidIndices(products) :
        /\ products[i].tags \cap exclude_tags = {}
        /\ (include_tags # {} => products[i].tags \cap include_tags # {})}

\* _precompute_role_indices, part 2, with the fallback for an empty list
ProfileIndices(products, exclude_tags, include_tags) ==
    LET profile_indices == ProfileFiltered(products, exclude_tags, include_tags)
    IN  IF profile_indices = {} THEN AllValidIndices(products) ELSE profile_indices

\* action_masks, mask 1: the actions marked True
BudgetMask(products, budget_indices) == budget_indices \cup {NProducts(products)}

\* action_masks, mask 2
CompatMask(products, cart) ==
    LET cart_categories == {products[cart[k]].product_category : k \in DOMAIN cart}
        other == {i \in AllValidIndices(products) :
                     products[i].product_category \notin cart_categories}
    IN  (IF cart = <<>> \/ other = {} THEN DOMAIN products ELSE other)
        \cup {NProducts(products)}

\* action_masks, mask 3
ProfileMask(products, profile_indices) == profile_indices \cup {NProducts(products)}

\* reset
MultiReset ==
    /\ w_products # <<>>
    /\ w_cart' = <<>>
    /\ w_sum' = 0
    /\ w_steps' = 0
    /\ UNCHANGED <<w_products, w_exclude, w_include, w_budget, w_budget_indices,
                   w_profile_indices, bvars, mvars, gvars, xvars, tvars, qvars>>

\* the loop body of step for one of the three actions
AddToCart(products, budget, state, act) ==
    IF /\ act < NProducts(products)
       /\ act \notin Range(state.cart)
       /\ 10 * (state.current_sum + products[act].price_per_unit) <= 12 * budget
    THEN [cart |-> Append(state.cart, act),
          current_sum |-> state.current_sum + products[act].price_per_unit]
    ELSE state

\* step(action), action = [budget_action, compat_action, profile_action]
MultiStep ==
    /\ w_products # <<>>
    /\ w_steps < MaxMultiSteps
    /\ \E action \in (0..NProducts(w_products)) \X (0..NProducts(w_products))
                     \X (0..NProducts(w_products)) :
         LET start == [cart |-> w_cart, current_sum |-> w_sum]
             after == AddToCart(w_products, w_budget,
                          AddToCart(w_products, w_budget,
                              AddToCart(w_products, w_budget, start, action[1]),
                              action[2]),
                          action[3])
         IN  /\ w_steps' = w_steps + 1
             /\ w_cart' = after.cart
             /\ w_sum' = after.current_sum
    /\ UNCHANGED <<w_products, w_exclude, w_include, w_budget, w_budget_indices,
                   w_profile_indices, bvars, mvars, gvars, xvars, tvars, qvars>>

\* the environment as __init__ leaves it
InitMulti ==
    /\ w_products \in MultiProductLists
    /\ w_exclude \in MultiExcludeTags
    /\ w_include \in MultiIncludeTags
    /\ w_budget \in MultiBudgets
    /\ w_budget_indices = BudgetIndices(w_products)
    /\ w_profile_indices = ProfileIndices(w_products, w_exclude, w_include)
    /\ w_cart = <<>>
    /\ w_sum = 0
    /\ w_steps = 0

NextMulti == MultiReset \/ MultiStep

----------------------------------------------------------------------------
(* The candidate queries with tag filters: _load_products_with_embeddings of
   ProductSearcher and fetch_candidate_products *)

\* tags of include_tags at most
MaxIncludeTags == 2

TagVegan    == <<"v", "e", "g", "a", "n">>
TagBio      == <<"b", "i", "o">>
TagDairy    == <<"d", "a", "i", "r", "y">>

\* a NULL of the tags column
NullTags == [null |-> TRUE]

\* rows of products: tags is the text of the column, the tags joined by '|'
QueryRows == {
    [id |-> 21, price_per_unit |-> 100, embedding |-> "a",    tags |-> TagVegan \o <<"|">> \o TagBio],
    [id |-> 22, price_per_unit |-> 200, embedding |-> "a",    tags |-> TagVegan],
    [id |-> 23, price_per_unit |-> 300, embedding |-> "b",    tags |-> TagBio \o <<"|">> \o TagDairy],
    [id |-> 24, price_per_unit |-> 150, embedding |-> "a",    tags |-> NullTags],
    [id |-> 25, price_per_unit |-> 20,  embedding |-> "b",    tags |-> TagDairy],
    [id |-> 26, price_per_unit |-> 250, embedding |-> "null", tags |-> TagBio] }

QueryTags == {TagVegan, TagBio, TagDairy}

QueryInputs ==
    [exclude_tags : {{}} \cup {{tag} : tag \in QueryTags},
     include_tags : {tags \in SUBSET QueryTags : Cardinality(tags) <= MaxIncludeTags},
     budget_rub : {1500}]

\* row["tags"].split("|") if row["tags"] else []
TagList(tags) == IF tags = NullTags \/ tags = <<>> THEN <<>> ELSE SplitAt(tags, "|")

\* tags LIKE '%tag%', NULL for a NULL column
TagsLike(tags, tag) == tags # NullTags /\ LikeContains(tags, tag)

\* AND (tags IS NULL OR tags NOT LIKE ?) for every tag of exclude_tags
ExcludeFilter(tags, exclude_tags) ==
    \A tag \in exclude_tags : tags = NullTags \/ ~TagsLike(tags, tag)

\* AND tags LIKE ? for every tag of include_tags
IncludeFilter(tags, include_tags) ==
    \A tag \in include_tags : TagsLike(tags, tag)

\* the ids _load_products_with_embeddings returns, called with tag filters only
LoadWithTags(exclude_tags, include_tags) ==
    {row.id : row \in {r \in QueryRows : /\ r.embedding # "null"
                                          /\ ExcludeFilter(r.tags, exclude_tags)
                                          /\ IncludeFilter(r.tags, include_tags)}}

\* the ids fetch_candidate_products returns, its limit above the number of rows
FetchCandidateProducts(budget, exclude_tags, include_tags) ==
    {row.id : row \in {r \in QueryRows : /\ 100 * r.price_per_unit >= 2 * budget
                                          /\ 10 * r.price_per_unit <= 3 * budget
                                          /\ ExcludeFilter(r.tags, exclude_tags)
                                          /\ IncludeFilter(r.tags, include_tags)}}

\* _load_products_with_embeddings(exclude_tags=..., include_tags=...)
QuerySearcher ==
    /\ "searcher" \notin q_pc
    /\ q_pc' = q_pc \cup {"searcher"}
    /\ q_out' = [q_out EXCEPT !.searcher = LoadWithTags(q_in.exclude_tags, q_in.include_tags)]
    /\ UNCHANGED <<q_in, bvars, mvars, gvars, xvars, tvars, wvars>>

\* fetch_candidate_products(constraints)
QueryFetch ==
    /\ "fetch" \notin q_pc
    /\ q_pc' = q_pc \cup {"fetch"}
    /\ q_out' = [q_out EXCEPT !.fetch = FetchCandidateProducts(q_in.budget_rub,
                                             q_in.exclude_tags, q_in.include_tags)]
    /\ UNCHANGED <<q_in, bvars, mvars, gvars, xvars, tvars, wvars>>

InitQuery ==
    /\ q_pc = {}
    /\ q_in \in QueryInputs
    /\ q_out = [searcher |-> {}, fetch |-> {}]

NextQuery == QuerySearcher \/ QueryFetch

----------------------------------------------------------------------------
(* Specifications: one per component, the other components at rest *)

InitB ==
    /\ InitBudget /\ InitMatcherIdle /\ InitAgent
    /\ InitScaleIdle /\ InitPackIdle /\ InitScoreIdle /\ InitEnvIdle
    /\ InitTotalIdle /\ InitQueryIdle /\ InitMultiIdle

SpecBudget == InitB /\ [][NextBudget]_vars

InitM ==
    /\ InitMatcher /\ InitBudgetIdle /\ InitAgent
    /\ InitScaleIdle /\ InitPackIdle /\ InitScoreIdle /\ InitEnvIdle
    /\ InitTotalIdle /\ InitQueryIdle /\ InitMultiIdle

SpecMatcher == InitM /\ [][NextMatcher]_vars

InitG ==
    /\ InitAgent /\ InitBudgetIdle /\ InitMatcherIdle
    /\ InitScaleIdle /\ InitPackIdle /\ InitScoreIdle /\ InitEnvIdle
    /\ InitTotalIdle /\ InitQueryIdle /\ InitMultiIdle

SpecAgent == InitG /\ [][NextAgent]_vars

InitK ==
    /\ InitScale /\ InitBudgetIdle /\ InitMatcherIdle /\ InitAgent
    /\ InitPackIdle /\ InitScoreIdle /\ InitEnvIdle
    /\ InitTotalIdle /\ InitQueryIdle /\ InitMultiIdle

SpecScale == InitK /\ [][NextScale]_vars

InitP ==
    /\ InitPack /\ InitBudgetIdle /\ InitMatcherIdle /\ InitAgent
    /\ InitScaleIdle /\ InitScoreIdle /\ InitEnvIdle
    /\ InitTotalIdle /\ InitQueryIdle /\ InitMultiIdle

SpecPack == InitP /\ [][NextPack]_vars

InitS ==
    /\ InitScore /\ InitBudgetIdle /\ InitMatcherIdle /\ InitAgent
    /\ InitScaleIdle /\ InitPackIdle /\ InitEnvIdle
    /\ InitTotalIdle /\ InitQueryIdle /\ InitMultiIdle

SpecScore == InitS /\ [][NextScore]_vars

InitE ==
    /\ InitEnv /\ InitBudgetIdle /\ InitMatcherIdle /\ InitAgent
    /\ InitScaleIdle /\ InitPackIdle /\ InitScoreIdle
    /\ InitTotalIdle /\ InitQueryIdle /\ InitMultiIdle

SpecEnv == InitE /\ [][NextEnv]_vars

InitT ==
    /\ InitTotal /\ InitBudgetIdle /\ InitMatcherIdle /\ InitAgent
    /\ InitScaleIdle /\ InitPackIdle /\ InitScoreIdle /\ InitEnvIdle
    /\ InitQueryIdle /\ InitMultiIdle

SpecTotal == InitT /\ [][NextTotal]_vars

InitQ ==
    /\ InitQuery /\ InitBudgetIdle /\ InitMatcherIdle /\ InitAgent
    /\ InitScaleIdle /\ InitPackIdle /\ InitScoreIdle /\ InitEnvIdle
    /\ InitTotalIdle /\ InitMultiIdle

SpecQuery == InitQ /\ [][NextQuery]_vars

InitW ==
    /\ InitMulti /\ InitBudgetIdle /\ InitMatcherIdle /\ InitAgent
    /\ InitScaleIdle /\ InitPackIdle /\ InitScoreIdle /\ InitEnvIdle
    /\ InitTotalIdle /\ InitQueryIdle

SpecMulti == InitW /\ [][NextMulti]_vars

----------------------------------------------------------------------------
(* Claims on BudgetAgent *)

NonNegativePrices(basket) == \A i \in DOMAIN basket : basket[i].price >= 0

\* C1: for a basket of non-negative prices and a min_discount in [0,1], the running
\* total of optimize never exceeds the sum of the input prices, and the returned
\* total_price is at most that sum, whatever the pool holds.
C1_TotalNeverIncreases ==
    (b_pc # "idle" /\ NonNegativePrices(b_in) /\ b_disc \in 0..100) =>
        /\ SumPrices(b_basket) <= SumPrices(b_in)
        /\ b_pc = "done" => b_result.total_price <= SumPrices(b_in)

C1_Witness ==
    /\ b_pc = "done"
    /\ NonNegativePrices(b_in)
    /\ b_repl # <<>>
    /\ b_result.total_price < SumPrices(b_in)

\* C2: every recorded replacement puts in a product priced at most
\* p * (1 - min_discount), p the replaced item's price; every position of the
\* basket that differs from the input holds a product within that bound.
C2_SubstituteWithinPriceBound ==
    /\ \A r \in Range(b_repl) : r.to.price * 100 <= r.from.price * (100 - b_disc)
    /\ \A i \in DOMAIN b_basket :
           b_basket[i] # b_in[i] => b_basket[i].price * 100 <= b_in[i].price * (100 - b_disc)

C2_Witness ==
    /\ b_pc = "done"
    /\ b_disc = 30
    /\ \E r \in Range(b_repl) : r.from.price > 0 /\ r.to.price > 0

\* C3: a basket whose prices sum to at most the budget comes back identical, with
\* no replacement, saved = 0 and within_budget = true; and optimize called again on
\* the basket of a call that ended within budget returns that basket unchanged.
C3_WithinBudgetIsNoOp ==
    b_pc = "done" =>
        /\ (b_budget # NoBudget /\ SumPrices(b_in) <= b_budget) =>
              /\ b_result.basket = b_in
              /\ b_result.replacements = <<>>
              /\ b_result.saved = 0
              /\ b_result.within_budget
        /\ (b_again /\ b_prev.within_budget) =>
              /\ b_result.basket = b_prev.basket
              /\ b_result.replacements = <<>>
              /\ b_result.saved = 0
              /\ b_result.within_budget
              /\ b_result.total_price = b_prev.total_price

C3_Witness ==
    /\ b_pc = "done"
    /\ b_again
    /\ b_prev.within_budget
    /\ b_prev.replacements # <<>>
    /\ Len(b_in) = 2
    /\ b_in[1].price < b_in[2].price

\* C4: the basket keeps the length of the input; each position holds the substitute
\* found for it, or the input item when none was found or the position was not
\* visited; the returned basket is that basket.
C4_SameLengthInPlace ==
    b_pc # "idle" =>
        /\ Len(b_basket) = Len(b_in)
        /\ \A i \in DOMAIN b_in :
               b_basket[i] = IF b_found[i] # NoAlt THEN b_found[i] ELSE b_in[i]
        /\ b_pc = "done" => b_result.basket = b_basket

C4_Witness ==
    /\ b_pc = "done"
    /\ Len(b_in) = 2
    /\ b_found[2] # NoAlt
    /\ b_found[1] = NoAlt
    /\ b_order = <<1, 2>>
    /\ b_result.basket[1] = b_in[1]

\* the roles of an item: the entries of its list, or of its text split at '|'
RolesOf(mc) ==
    IF mc.v = <<>> THEN {}
    ELSE IF mc.t = "list" THEN Range(mc.v) ELSE Range(SplitAt(mc.v, "|"))

HasPrimaryRole(mc) == mc.v # <<>>
PrimaryRole(mc) == IF mc.t = "list" THEN mc.v[1] ELSE SplitAt(mc.v, "|")[1]

\* C5 as stated: every substitute has the replaced item's primary meal role (the
\* first entry of its meal_components) among its roles, for every item, those with
\* empty or missing meal_components included.
C5_SubstituteSharesPrimaryRole ==
    \A r \in Range(b_repl) :
        HasPrimaryRole(r.from.mc) /\ PrimaryRole(r.from.mc) \in RolesOf(r.to.mc)

\* C5 amended: a substitute for an item with non-empty meal_components has a
\* meal_components text that matches LIKE '%c%', c the item's main component (the
\* first entry of a list, the whole of a text).
C5_SubstituteMatchesMainComponent ==
    \A r \in Range(b_repl) :
        r.from.mc.v # <<>> =>
            LET c == IF r.from.mc.t = "list" THEN r.from.mc.v[1] ELSE r.from.mc.v
            IN  \E i \in 0..(Len(r.to.mc.v) - Len(c)) :
                    \A j \in 1..Len(c) : c[j] = "_" \/ r.to.mc.v[i + j] = c[j]

C5_Witness ==
    /\ b_pc = "done"
    /\ \E r \in Range(b_repl) : Len(r.from.mc.v) = 2 /\ r.from.mc.t = "list"

----------------------------------------------------------------------------
(* Claims on ScenarioMatcher *)

LabelHasKeyword(label, kw) ==
    \E i \in 0..(Len(label) - Len(kw)) :
        \A j \in 1..Len(kw) : LowerChar(label[i + j]) = kw[j]

\* C6: with exclude_tags not empty, a template match returns has no component whose
\* ingredient label contains (letter case aside) a keyword of an excluded tag, for
\* every library, strategy and draw.
C6_NoExcludedIngredientReturned ==
    (m_pc = "returned" /\ m_result.found /\ m_args.exclude_tags # {}) =>
        \A c \in DOMAIN m_result.scenario.components :
            \A tag \in m_args.exclude_tags :
                \A k \in DOMAIN TAG_KEYWORDS(tag) :
                    ~LabelHasKeyword(m_result.scenario.components[c].ingredient,
                                     TAG_KEYWORDS(tag)[k])

\* a template with "Moloko" was in the library and passed the basic filter, and
\* match, told to exclude dairy, returned another one
C6_Witness ==
    /\ m_pc = "returned"
    /\ m_result.found
    /\ m_args.exclude_tags = {"dairy"}
    /\ m_args.include_tags = {}
    /\ \E i \in DOMAIN m_lib :
          /\ m_lib[i].components[1].ingredient = MolokoUp
          /\ m_lib[i].meal_type \in m_args.meal_types
          /\ m_args.max_time_min = NoTime

\* C7 as stated: with strategy "smart" and n >= 1 surviving templates, match returns
\* one of the min(6, n) best-scored survivors whatever the draw; it never fails.
C7_SmartSelectionNeverFails ==
    (m_pc # "idle" /\ m_args.strategy = "smart" /\ Len(Candidates(m_lib, m_args)) >= 1) =>
        /\ m_pc = "returned"
        /\ m_result.found
        /\ LET ranked == ScoredScenarios(Candidates(m_lib, m_args), m_args.prefer_quick,
                                         m_args.prefer_cheap, m_args.include_tags)
           IN  \E k \in 1..Min(6, Len(ranked)) : ranked[k].id = m_result.scenario.id

----------------------------------------------------------------------------
(* Claims on CompatibilityAgent.generate_basket *)

\* C8: generate_basket never lets an exception escape: whatever happens in scenario
\* selection, slot filling or scoring, it returns a result carrying a success flag,
\* the basket built so far and the recorded errors.
C8_NoExceptionEscapes ==
    /\ g_pc # "escaped"
    /\ (g_pc = "done" =>
            /\ g_result.success \in BOOLEAN
            /\ g_result.basket = g_basket
            /\ g_result.errors = g_errors)

\* the components the for loop took for which a product was found
FoundSlots == SelectSeq(g_slots, LAMBDA v : v.outcome = "found")

\* C9: generate_basket takes the components of the chosen scenario once each in
\* template order, a component with no product never ends the loop, and the basket
\* is the subsequence of the components for which a product was found, one item
\* per component, in template order.
C9_BasketIsFoundSubsequence ==
    /\ \A k \in 1..Len(g_slots) : g_slots[k].slot = k
    /\ Len(g_basket) = Len(FoundSlots)
    /\ \A k \in 1..Len(g_basket) : g_basket[k].slot = FoundSlots[k].slot
    /\ (g_slots # <<>> /\ g_slots[Len(g_slots)].outcome = "absent" /\ g_pc # "slots"
            => Len(g_slots) = Len(g_scenario.scenario.components))
    /\ (g_pc = "done" /\ g_result.kind = "ok"
            => /\ Len(g_slots) = Len(g_scenario.scenario.components)
               /\ g_result.basket = g_basket)

\* a returned basket of two items found after a required component was left unfilled
C9_Witness ==
    /\ g_pc = "done"
    /\ g_result.kind = "ok"
    /\ Len(g_result.basket) = 2
    /\ g_slots[1].outcome = "absent"
    /\ g_scenario.scenario.components[1].required
    /\ g_slots[2].outcome = "found"
    /\ g_slots[3].outcome = "found"

\* C10: the success flag generate_basket returns is true exactly when the basket is
\* non-empty and (no budget is set or total_price <= budget) and total_score >= 0.3;
\* the basket is returned either way.
C10_SuccessFlagIsThePredicate ==
    g_pc = "done" /\ g_result.kind = "ok" =>
        /\ g_result.basket = g_basket
        /\ g_result.success <=>
              /\ g_result.basket # <<>>
              /\ (g_query.budget_rub = NoBudget \/ g_result.total_price <= g_query.budget_rub)
              /\ g_result.total_score >= 3000

\* C11: no item of a basket built by generate_basket carries a tag of the request's
\* exclude_tags.
C11_NoExcludedTagInBasket ==
    \A k \in 1..Len(g_basket) : g_basket[k].product.tags \cap g_query.exclude_tags = {}

----------------------------------------------------------------------------
(* Claims on _scale_scenario *)

\* C12: for every party size >= 1 and every positive quantity_per_person, the
\* quantity_scaled that _scale_scenario writes is >= 1, in both ScenarioMatcher
\* classes.
C12_ScaledAtLeastOne ==
    /\ ("smart" \in k_pc => k_out.smart >= 100)
    /\ ("basic" \in k_pc => k_out.basic >= 100)

\* both classes have scaled a product that rounds to zero
C12_Witness ==
    /\ k_pc = {"smart", "basic"}
    /\ k_in.quantity_per_person * k_in.people < 5
    /\ k_out.smart = 100
    /\ k_out.basic = 100

\* C13: quantity_scaled is quantity_per_person * people rounded by tier: below 10
\* to a whole number, below 100 to a multiple of 5, from 100 on to a multiple of
\* 10, and at least 1; so it is always a whole number.
C13_ScalingRule ==
    LET product == k_in.quantity_per_person * k_in.people
        tiered == IF product < 1000 THEN RoundHalfEven(product, 100) * 100
                  ELSE IF product < 10000 THEN RoundHalfEven(product, 500) * 500
                  ELSE RoundHalfEven(product, 1000) * 1000
        expected == IF tiered < 100 THEN 100 ELSE tiered
    IN  /\ ("smart" \in k_pc => k_out.smart = expected /\ k_out.smart % 100 = 0)
        /\ ("basic" \in k_pc => k_out.basic = expected /\ k_out.basic % 100 = 0)

----------------------------------------------------------------------------
(* Claims on the package arithmetic *)

\* C14: for a positive quantity and a positive package size, the package count of
\* search_by_ingredient is the ceiling of the quantity over the package size taken
\* in the quantity's unit, it is >= 1, and total_price is the count times
\* price_per_unit.
C14_PackagesAreCeiling ==
    "basic" \in p_pc =>
        LET needed == p_in.quantity * p_in.people
            package == IF p_in.row.unit \in {"kg", "l"}
                       THEN p_in.row.package_size * 1000
                       ELSE p_in.row.package_size
            count == p_out.basic.quantity_needed
        IN  /\ count >= 1
            /\ count * package >= needed
            /\ (count - 1) * package < needed
            /\ p_out.basic.total_price = count * p_in.row.price_per_unit

\* a quantity that is not a whole number of packages and needs more than one
C14_Witness ==
    /\ "basic" \in p_pc
    /\ p_in.row.unit = "kg"
    /\ (p_in.quantity * p_in.people) % (p_in.row.package_size * 1000) # 0
    /\ p_out.basic.quantity_needed = 2
    /\ p_out.basic.total_price = 2 * p_in.row.price_per_unit

\* C15: a slot in grams (millilitres) filled by a product in kg (l) needs the slot
\* quantity / 1000 of the product's unit, and the package count is the ceiling of
\* that over the package size; when the units agree nothing is converted; for every
\* product unit of the pool.
C15_UnitReconciliation ==
    LET converted == \/ (p_in.unit = "g" /\ p_in.row.unit = "kg")
                     \/ (p_in.unit = "ml" /\ p_in.row.unit = "l")
        agree == p_in.unit = p_in.row.unit
        package == IF converted THEN p_in.row.package_size * 1000
                   ELSE p_in.row.package_size
        IsCount(count, needed) ==
            /\ count >= 1
            /\ count * package >= needed
            /\ (count - 1) * package < needed
    IN  converted \/ agree =>
            /\ ("basic" \in p_pc =>
                    IsCount(p_out.basic.quantity_needed, p_in.quantity * p_in.people))
            /\ ("smart" \in p_pc => IsCount(p_out.smart.quantity_needed, p_in.quantity))

----------------------------------------------------------------------------
(* Claims on CompatibilityScorer *)

\* C16: for every basket and any weights compute_score returns total_score in
\* [0, 1]; for the empty basket every reported term and both pair counts are 0.
C16_TotalScoreInUnitInterval ==
    s_pc = "out" =>
        /\ s_out.total_score >= 0
        /\ s_out.total_score <= 10000
        /\ (s_in.basket = <<>> =>
                /\ s_out.total_score = 0
                /\ s_out.embedding_similarity = 0
                /\ s_out.rule_based = 0
                /\ s_out.component_balance = 0
                /\ s_out.num_positive_pairs = 0
                /\ s_out.num_negative_pairs = 0)

\* a basket of three whose weighted sum is above 1 and is reported as 1
C16_Witness ==
    /\ s_pc = "out"
    /\ Len(s_in.basket) = 3
    /\ s_in.weights.embedding_similarity = 30
    /\ s_out.embedding_similarity > 0
    /\ s_out.num_negative_pairs > 0
    /\ s_out.total_score = 10000

----------------------------------------------------------------------------
(* Claims on CompatibilityEnv *)

\* the actions action_masks marks legal in the current state
LegalNow == ActionMasks(e_products, e_cart, e_sum, e_budget, e_meal)

\* the products that rules 1 and 2 leave: not in the cart, not over the hard cap
AllowedPicks ==
    {i \in DOMAIN e_products :
        /\ \A k \in DOMAIN e_cart : e_cart[k] # i
        /\ 10 * (e_sum + e_products[i].price_per_unit) <= 13 * e_budget}

\* C17: in every state reached by reset and step calls, action_masks marks the skip
\* action (index n_products) legal.
C17_SkipAlwaysLegal ==
    e_products # <<>> => Cardinality(DOMAIN e_products) \in LegalNow

\* after a step, every product is masked and skip is the only legal action
C17_Witness ==
    /\ e_products # <<>>
    /\ e_steps > 0
    /\ e_cart # <<>>
    /\ LegalNow = {Cardinality(DOMAIN e_products)}

\* C18: after any sequence of step calls, mask-legal or not, cart_indices holds no
\* product index twice, and action_masks marks every index of cart_indices illegal.
C18_NoDuplicatesAndCartMasked ==
    /\ \A j, k \in DOMAIN e_cart : j # k => e_cart[j] # e_cart[k]
    /\ \A k \in DOMAIN e_cart : e_cart[k] \notin LegalNow

\* the last step asked for a product that was already in the cart
C18_Witness ==
    /\ e_steps > 1
    /\ e_last.action < Cardinality(DOMAIN e_products)
    /\ ~e_last.added
    /\ \E k \in DOMAIN e_cart : e_cart[k] = e_last.action
    /\ Len(e_cart) >= 2

\* C19: action_masks marks pick(i) illegal whenever current_sum + price(i) is above
\* 1.3 x budget, so along every run of mask-legal actions current_sum stays within
\* 1.3 x budget (prices being non-negative).
C19_HardCapUnderMaskedPlay ==
    /\ \A i \in DOMAIN e_products :
          10 * (e_sum + e_products[i].price_per_unit) > 13 * e_budget => i \notin LegalNow
    /\ (e_masked => 10 * e_sum <= 13 * e_budget)

\* masked play has spent money and a product not in the cart no longer fits the cap
C19_Witness ==
    /\ e_masked
    /\ Len(e_cart) >= 2
    /\ e_sum > e_budget
    /\ \E i \in DOMAIN e_products :
          /\ \A k \in DOMAIN e_cart : e_cart[k] # i
          /\ 10 * (e_sum + e_products[i].price_per_unit) > 13 * e_budget

\* C20: while a required role is uncovered and the cart has headroom (size <
\* max_items - 2): if a product allowed by the duplicate and hard-cap rules covers an
\* uncovered required role, every legal pick covers one; otherwise the legal picks
\* are exactly the allowed ones. The role rule never empties a non-empty set of
\* legal picks.
C20_RoleRuleRelaxes ==
    LET missing == MEAL_REQUIREMENTS(e_meal).required
                   \ {comp \in CoverageComponents :
                         \E k \in DOMAIN e_cart :
                            comp \in e_products[e_cart[k]].meal_components}
        picks == LegalNow \ {Cardinality(DOMAIN e_products)}
        covering == {i \in AllowedPicks : e_products[i].meal_components \cap missing # {}}
    IN  (e_products # <<>> /\ missing # {}
         /\ Len(e_cart) < MEAL_REQUIREMENTS(e_meal).max_items - 2) =>
            /\ (covering # {} =>
                    \A i \in picks : e_products[i].meal_components \cap missing # {})
            /\ (covering = {} => picks = AllowedPicks)
            /\ (AllowedPicks # {} => picks # {})

\* a required role is uncovered, the cart has headroom, no allowed product covers a
\* missing role, and the allowed products are all legal
C20_Witness ==
    /\ e_steps > 0
    /\ e_cart # <<>>
    /\ MissingRequired(e_products, e_cart, e_meal) # {}
    /\ Len(e_cart) < MEAL_REQUIREMENTS(e_meal).max_items - 2
    /\ AllowedPicks # {}
    /\ \A i \in AllowedPicks :
          e_products[i].meal_components \cap MissingRequired(e_products, e_cart, e_meal) = {}
    /\ LegalNow \ {Cardinality(DOMAIN e_products)} = AllowedPicks

----------------------------------------------------------------------------
(* C21 *)

\* C21: whenever step has returned, its terminated flag is true exactly when
\* the cart after the action holds max_items products or more, or current_sum
\* is above 1.3 x budget, or every required role of the meal type is covered
\* and the cart holds at least min_items products; otherwise it is false.
C21_TerminatedExactly ==
    (e_last.action # NoAction /\ ~e_last.raised) =>
        (e_last.terminated <=>
            \/ Len(e_cart) >= MEAL_REQUIREMENTS(e_meal).max_items
            \/ 10 * e_sum > 13 * e_budget
            \/ /\ \A comp \in MEAL_REQUIREMENTS(e_meal).required :
                     \E k \in DOMAIN e_cart :
                        comp \in e_products[e_cart[k]].meal_components
               /\ Len(e_cart) >= MEAL_REQUIREMENTS(e_meal).min_items)

\* a step that filled the cart to max_items below the hard cap
C21_Witness ==
    /\ e_last.added
    /\ ~e_last.raised
    /\ e_last.terminated
    /\ Len(e_cart) >= MEAL_REQUIREMENTS(e_meal).max_items
    /\ 10 * e_sum <= 13 * e_budget

----------------------------------------------------------------------------
(* C22 *)

\* the roles the products of a cart carry
RolesCovered(products, cart) ==
    UNION {products[cart[k]].meal_components : k \in DOMAIN cart}

\* C22: when step has added a product that carries a required role no product
\* of the cart carried before the pick, the reward holds the required-gap bonus
\* of 10, and when it carries an optional role none carried before, the
\* optional-gap bonus of 4.
C22_GapBonusGiven ==
    (e_last.added /\ ~e_last.raised) =>
        LET before == RolesCovered(e_products, SubSeq(e_cart, 1, Len(e_cart) - 1))
            picked == e_products[e_last.action].meal_components
            requirements == MEAL_REQUIREMENTS(e_meal)
        IN  /\ (picked \cap requirements.required) \ before # {}
                   => e_last.required_bonus = 10
            /\ (picked \cap requirements.optional) \ before # {}
                   => e_last.optional_bonus = 4

----------------------------------------------------------------------------
(* C23 *)

\* C23: the total the budget agent compares with the budget is the sum over
\* the items of total_price when the item has one, and otherwise of its unit
\* price (price, or price_per_unit) times its quantity, a missing quantity
\* counting as 1; the empty basket totals 0.
C23_ComparedTotalIsBasketTotal ==
    t_pc = "out" => t_out.original_price = CalculateTotal(t_in.basket)

----------------------------------------------------------------------------
(* C24 *)

\* C24: the profile mask of action_masks never permits a product that carries
\* a tag of exclude_tags.
C24_ProfileMaskExcludesTags ==
    \A i \in ProfileMask(w_products, w_profile_indices) :
        i < NProducts(w_products) => w_products[i].tags \cap w_exclude = {}

----------------------------------------------------------------------------
(* C25 *)

\* the loop of optimize took the item at rank k of sorted_indices
Visited(k) == k < b_k

\* C25: the loop of optimize takes the items in non-increasing order of their
\* original price; an item of the basket is changed only in a state where the
\* running total is above the budget; and every item the loop has not yet
\* taken is still the item of the input.
C25_VisitOrderAndStop ==
    /\ [](b_pc = "loop" =>
            /\ \A k, l \in DOMAIN b_order :
                  k < l => b_in[b_order[k]].price >= b_in[b_order[l]].price
            /\ \A k \in DOMAIN b_order :
                  ~Visited(k) => b_basket[b_order[k]] = b_in[b_order[k]])
    /\ [][(b_pc = "loop" /\ b_basket' # b_basket) =>
              /\ SumPrices(b_basket) > b_budget
              /\ \A i \in DOMAIN b_basket :
                    b_basket'[i] # b_basket[i] => i = b_order[b_k]]_vars
    /\ [](b_pc = "done" /\ b_order # <<>> =>
            \A k \in DOMAIN b_order :
               ~Visited(k) => b_result.basket[b_order[k]] = b_in[b_order[k]])

\* a run that replaced the dearest item, came within the budget and returned
\* with a cheaper item never taken
C25_Witness ==
    /\ b_pc = "done"
    /\ Len(b_order) = 2
    /\ b_k = 2
    /\ b_repl # <<>>
    /\ b_in[b_order[1]].price > b_in[b_order[2]].price
    /\ b_order[1] = 2

----------------------------------------------------------------------------
(* C26 *)

\* the rows the query returns for item whose vector is non-empty and finite,
\* item's vector finite too, and whose id is not item's
ValidSubstitutes(item, disc, pool) ==
    {row \in pool : /\ RowSelected(row, item, disc)
                    /\ row.emb \in {"a", "b"}
                    /\ item.emb \in {"a", "b"}
                    /\ row.id # item.id}

\* C26: for every item the loop of optimize has taken, the substitute found is
\* a row that passed the price bound, has a non-empty finite vector and an id
\* other than the item's, and no such row is more similar to the item's
\* vector; the item gets no substitute exactly when there is no such row or the
\* item has no vector.
C26_MostSimilarValidSubstitute ==
    (b_pc \in {"loop", "done"} /\ b_order # <<>>) =>
        \A k \in DOMAIN b_order :
            Visited(k) =>
                LET item  == b_in[b_order[k]]
                    found == b_found[b_order[k]]
                    valid == ValidSubstitutes(item, b_disc, b_pool)
                IN  IF item.emb = "none" \/ valid = {}
                    THEN found = NoAlt
                    ELSE \E row \in valid :
                            /\ found = AsItem(row)
                            /\ \A q \in valid :
                                  Similarity(item.emb, q.emb) <= Similarity(item.emb, row.emb)

\* an item got a substitute while a row that passed the query was skipped for
\* its vector and a more similar row was skipped for having the item's id
C26_Witness ==
    /\ b_pc = "done"
    /\ \E k \in DOMAIN b_order :
          /\ Visited(k)
          /\ b_found[b_order[k]] # NoAlt
          /\ \E row \in b_pool :
                /\ RowSelected(row, b_in[b_order[k]], b_disc)
                /\ row.emb \in {"nan", "empty"}
          /\ \E row \in b_pool :
                /\ RowSelected(row, b_in[b_order[k]], b_disc)
                /\ row.id = b_in[b_order[k]].id

----------------------------------------------------------------------------
(* C28 *)

RECURSIVE SumSaved(_)
\* the sum of the saved amounts of a list of replacements
SumSaved(replacements) ==
    IF replacements = <<>> THEN 0
    ELSE Head(replacements).saved + SumSaved(Tail(replacements))

RECURSIVE SumItemPrices(_)
\* the sum of the prices of a list of items
SumItemPrices(items) ==
    IF items = <<>> THEN 0 ELSE Head(items).price + SumItemPrices(Tail(items))

\* C28: in the dict optimize returns, saved is the sum of the saved amounts of
\* its replacements and is the sum of the input prices less total_price,
\* total_price is the sum of the prices of the returned basket, and, a budget
\* given, within_budget is true exactly when total_price <= budget.
C28_RepairAccounting ==
    b_pc = "done" =>
        /\ b_result.saved = SumSaved(b_result.replacements)
        /\ b_result.saved = SumItemPrices(b_in) - b_result.total_price
        /\ b_result.total_price = SumItemPrices(b_result.basket)
        /\ (b_budget # NoBudget =>
               (b_result.within_budget <=> b_result.total_price <= b_budget))

\* a run that replaced an item, saved money and still returned over the budget
C28_Witness ==
    /\ b_pc = "done"
    /\ b_result.replacements # <<>>
    /\ b_result.saved > 0
    /\ b_budget # NoBudget
    /\ ~b_result.within_budget

----------------------------------------------------------------------------
(* C27 *)

\* the tags of a row
TagSet(tags) == Range(TagList(tags))

\* C27: with include_tags non-empty, each candidate query keeps, of the rows it
\* would return without include_tags, exactly those whose tag set holds at
\* least one tag of include_tags.
C27_IncludeKeepsAnyTag ==
    q_in.include_tags # {} =>
        \A row \in QueryRows :
            LET has_include == TagSet(row.tags) \cap q_in.include_tags # {}
            IN  /\ "searcher" \in q_pc =>
                      (row.id \in q_out.searcher <=>
                          row.id \in LoadWithTags(q_in.exclude_tags, {}) /\ has_include)
                /\ "fetch" \in q_pc =>
                      (row.id \in q_out.fetch <=>
                          /\ row.id \in FetchCandidateProducts(q_in.budget_rub,
                                                              q_in.exclude_tags, {})
                          /\ has_include)

----------------------------------------------------------------------------
(* C29 *)

\* C29: every call of step raises the step counter by exactly one, and the
\* call that brings it to max_steps since reset returns with terminated or
\* truncated set, whatever the actions were.
C29_EpisodeEndsWithinMaxSteps ==
    /\ [][e_steps' = e_steps + 1 \/ e_steps' = 0]_vars
    /\ []((e_products # <<>> /\ e_steps = max_steps) =>
            /\ ~e_last.raised
            /\ (e_last.terminated \/ e_last.truncated))

\* the same for the budgets above 0
C29_EndsWithPositiveBudget ==
    (e_products # <<>> /\ e_budget > 0 /\ e_steps >= max_steps) =>
        /\ ~e_last.raised
        /\ e_last.truncated

----------------------------------------------------------------------------
(* C30 *)

\* C30: for every item of the basket being assembled, fractional_cost (kopecks)
\* is at most total_price (roubles): the cost of the quantity needed does not
\* exceed the cost of the whole packages bought.
C30_FractionalCostWithinTotalPrice ==
    \A k \in DOMAIN g_basket :
        g_basket[k].product.fractional_cost <= 100 * g_basket[k].product.total_price

\* the same for the generate_basket of src/agents
C30_HoldsForAgents ==
    g_impl = "agents" =>
        \A k \in DOMAIN g_basket :
            g_basket[k].product.fractional_cost <= 100 * g_basket[k].product.total_price

\* the same for the generate_basket of src/agent when one person eats and the
\* product is not sold by the litre
C30_HoldsForOnePerson ==
    (g_impl = "agent" /\ g_query.people = 1) =>
        \A k \in DOMAIN g_basket :
            g_basket[k].product.unit # "l" =>
                g_basket[k].product.fractional_cost <= 100 * g_basket[k].product.total_price

====
